---- MODULE Spec2Model ----
(***************************************************************************)
(* Model of the cancellation core of the YoureHired backend:               *)
(*   backend/app/services/task_registry.py                                 *)
(*     class TaskRegistry   (register, unregister, cancel_all, cleanup)    *)
(*     run_agent_streamed   (the agent invocation wrapper)                 *)
(*                                                                         *)
(* Two specifications share the registry's actions:                        *)
(*   Spec         threads call the registry's methods directly, as the     *)
(*                unit tests and the thread-safety test do;                *)
(*   SpecWrapper  tasks run run_agent_streamed while other threads call    *)
(*                cancel_all and cleanup, as the API endpoints do.         *)
(***************************************************************************)
EXTENDS Integers, Sequences, FiniteSets, TLC

\* Bounds of the model.
NumThreads == 2
NumHandles == 2

Threads == 1..NumThreads
Handles == 1..NumHandles
Ids == {"session-1", "session-2"}

\* No handle argument (cancel_all, cleanup take only the id).
NoHandle == 0

\* Exceptions that can end the draining of the stream.
StreamErrors == {"TimeoutError", "InputGuardrailTripwireTriggered", "RuntimeError"}

VARIABLES
    active,          \* TaskRegistry._active: dict session id -> list of handles
    is_complete,     \* RunResultStreaming.is_complete of every handle
    cancel_calls,    \* number of cancel(mode="immediate") calls on every handle
    created,         \* handles that exist (Runner.run_streamed returned them)
    cancel_requested,\* history: "never", "marked" (cancel_all since the last
                     \*   cleanup) or "cleared" (cleanup after a cancel_all)
    results,         \* cancel_all's local list: the popped handles it has
                     \*   still to visit, per thread (empty outside the loop)
    removed,         \* history: handles taken out of the registry (by
                     \*   unregister, cancel_all or cleanup)
    ret,             \* the call that ended last (op) and what it gave its
                     \*   caller (val): a return value or an exception's name
    task,            \* every task's call of run_agent_streamed: its position
                     \*   (step), its session id and its handle
    pipeline,        \* the streaming generator that runs: "none",
                     \*   "research_company_stream" or "generate_drill_stream"
    pc,              \* where that generator is suspended
    events,          \* the events it has yielded to its consumer, in order
    stage,           \* history: what became of the call of every single-shot
                     \*   agent (planner, summarizer, evaluator)
    awaited,         \* the handle of the run_agent_streamed call the
                     \*   generator itself awaits (NoHandle: none)
    tasks,           \* the fan-out tasks made by asyncio.create_task: their
                     \*   state, handle and outcome, in launch order
    finished,        \* the fan-out tasks in the order in which they ended
                     \*   (the order asyncio.as_completed delivers them in)
    completed,       \* how many of them the generator has taken
    search_results,  \* research_company_stream's list of successful results
    candidates,      \* generate_drill_stream's list of candidates
    combined,        \* the input given to the summarizing agent
    returned,        \* what a pipeline function that is no event stream
                     \*   (generate_drill, _run_analysis) or the drill
                     \*   stream's endpoint gave its caller:
                     \*   the drill it returned or the exception it raised
    run_status,      \* the status column of the scout run's row in the
                     \*   search_runs table
    scout,           \* the locals of scout_search_stream and _run_analysis:
                     \*   the lengths of repos, filtered, capped and
                     \*   all_results, the counter analyzed, and the task
                     \*   sets pending and done
    invoked,         \* history: the calls scout_search_stream and the drill
                     \*   stream's endpoint have made, in order
    saved,           \* what save_analysis_results stored for the run: empty,
                     \*   or the number of results as its one entry
    guard,           \* the call of a guardrail function: what its text is
                     \*   like, where the call is, and its result
    api              \* the scout API: _active_searches, the rows of the search
                     \*   runs, the requests in flight and the running streams

\* The state of the registry and of the direct calls of run_agent_streamed.
registry_vars == <<active, is_complete, cancel_calls, created, cancel_requested,
                   removed, results, ret, task>>

\* The state of the streaming pipelines.
pipeline_vars == <<pipeline, pc, events, stage, awaited, tasks, finished,
                   completed, search_results, candidates, combined,
                   returned, run_status, scout, invoked, saved, guard, api>>

\* What only the scout pipeline and the guardrail functions write.
scout_vars == <<run_status, scout, invoked, saved, guard, api>>

\* What only generate_drill, the scout pipeline and the guardrail functions
\* write.
call_vars == <<returned, run_status, scout, invoked, saved, guard, api>>

vars == <<active, is_complete, cancel_calls, created, cancel_requested,
          removed, results, ret, task, pipeline, pc, events, stage, awaited,
          tasks, finished, completed, search_results, candidates, combined,
          returned, run_status, scout, invoked, saved, guard, api>>

----------------------------------------------------------------------------
\* Python list and dict primitives used by the registry.

Range(s) == {s[i] : i \in DOMAIN s}

\* list.remove(x): drops the first occurrence of x.
RECURSIVE ListRemove(_, _)
ListRemove(s, x) ==
    IF s = <<>> THEN <<>>
    ELSE IF Head(s) = x THEN Tail(s)
    ELSE <<Head(s)>> \o ListRemove(Tail(s), x)

\* Variant: the list is read and left in the dict.
DictKeep(d, k) == d

\* d.pop(k, None) / del d[k]: the dict without key k.
DictDel(d, k) == [j \in DOMAIN d \ {k} |-> d[j]]

\* Variant: self._active.setdefault(session_id, [result]), which appends
\* nothing when the id already has a list.
SetDefaultOnly(d, k, x) ==
    IF k \in DOMAIN d
    THEN d
    ELSE [j \in DOMAIN d \cup {k} |-> IF j = k THEN <<x>> ELSE d[j]]

\* Variant: self._active[session_id] = [result], which forgets the handles
\* registered before.
AssignSingleton(d, k, x) ==
    [j \in DOMAIN d \cup {k} |-> IF j = k THEN <<x>> ELSE d[j]]

\* self._active.setdefault(session_id, []).append(result)
SetDefaultAppend(d, k, x) ==
    IF k \in DOMAIN d
    THEN [d EXCEPT ![k] = Append(@, x)]
    ELSE [j \in DOMAIN d \cup {k} |-> IF j = k THEN <<x>> ELSE d[j]]

\* Variant: the emptied list is left in the dict.
RemoveKeepEmpty(d, k, x) ==
    IF k \notin DOMAIN d THEN d
    ELSE IF x \notin Range(d[k]) THEN d
    ELSE [d EXCEPT ![k] = ListRemove(@, x)]

\* The body of unregister: remove the result when the id has an entry and the
\* result is in its list (ValueError is swallowed), then drop an empty list.
RemoveResult(d, k, x) ==
    IF k \notin DOMAIN d THEN d
    ELSE IF x \notin Range(d[k]) THEN d
    ELSE IF ListRemove(d[k], x) = <<>> THEN DictDel(d, k)
    ELSE [d EXCEPT ![k] = ListRemove(@, x)]

\* Variant: every popped result is cancelled, complete or not.
ShouldCancelAlways(h) == TRUE

\* cancel_all's test before it cancels a popped result.
ShouldCancel(h) == ~is_complete[h]

\* result.cancel(mode="immediate") on handle h.
CancelHandle(calls, h) == [calls EXCEPT ![h] = @ + 1]

\* d.get(k, []): the list of k, empty when k has no entry.
ListOf(d, k) == IF k \in DOMAIN d THEN d[k] ELSE <<>>

\* Variant: no try/except around list.remove.
UnregisterUncaught(d, k, x) ==
    IF k \in DOMAIN d /\ x \notin Range(d[k]) THEN "ValueError" ELSE "None"

\* What unregister gives its caller: it returns None, also when the id has no
\* entry (the `if`) or the result is not in the list (ValueError is caught).
UnregisterOutcome(d, k, x) == "None"

\* A call of method op that ended with val.
Gave(op, val) == [op |-> op, val |-> val]

\* The history after one more call.
Called(log, call, gave) == Append(log, [call |-> call, gave |-> gave])

\* Handles are numbered in the order in which they are created.
IsNew(h) == h \notin created /\ \A g \in Handles : g < h => g \in created

\* A task that has not called run_agent_streamed.
NoTask == [step |-> "idle", id |-> "session-1", h |-> NoHandle]

\* Thread t is inside no registry method and no run_agent_streamed call.
Idle(t) == results[t] = <<>> /\ task[t].step = "idle"

\* The thread that takes the next call: the idle thread of lowest number
\* (the registry does not tell threads apart).
Free(t) == Idle(t) /\ \A u \in Threads : u < t => ~Idle(u)

\* The agents that a pipeline calls once per run.
Agents == {"planner_agent", "summarizer_agent", "evaluator_agent"}

\* The function has not ended: no drill returned, no exception raised.
NotReturned ==
    [kind |-> "none", drill |-> [title |-> <<>>], exc |-> [cls |-> "none", msg |-> ""]]

\* The locals of a scout run before discovery.
NoRepos ==
    [repos |-> 0, filtered |-> 0, capped |-> 0, all_results |-> 0, analyzed |-> 0,
     pending |-> {}, done |-> {}]

\* No guardrail function has been called.
NoGuard ==
    [fn |-> "none", matches |-> {}, gate |-> FALSE, verdict |-> "clean", at |-> "idle",
     classifier_calls |-> 0, tripwire_triggered |-> FALSE, reasoning |-> "",
     matched_pattern |-> 0]

\* The requests of the scout API that the model follows.
MaxRequests == 3

Requests == 1..MaxRequests

\* api/scout.py SEARCH_RATE_LIMIT: the searches one address may start in an
\* hour.
SEARCH_RATE_LIMIT == 5

\* A request that has not arrived.
NoRequest == [kind |-> "none", run |-> "-", at |-> "idle", response |-> "-"]

\* The scout API after import: _active_searches and _ip_search_counts are
\* empty, the database has no search run, no stream runs.
NoApi ==
    [_active_searches |-> {}, _ip_search_counts |-> 0, runs |-> {},
     request |-> [r \in Requests |-> NoRequest],
     streams |-> [id \in Ids |-> 0]]

\* No streaming generator has been started.
NoPipeline ==
    /\ pipeline = "none"
    /\ pc = "idle"
    /\ events = <<>>
    /\ stage = [a \in Agents |-> "not invoked"]
    /\ awaited = NoHandle
    /\ tasks = <<>>
    /\ finished = <<>>
    /\ completed = 0
    /\ search_results = <<>>
    /\ candidates = <<>>
    /\ combined = <<>>
    /\ returned = NotReturned
    /\ run_status = "running"
    /\ scout = NoRepos
    /\ invoked = <<>>
    /\ saved = <<>>

----------------------------------------------------------------------------
Init ==
    /\ active = <<>>
    /\ is_complete = [h \in Handles |-> FALSE]
    /\ cancel_calls = [h \in Handles |-> 0]
    /\ created = {}
    /\ cancel_requested = [id \in Ids |-> "never"]
    /\ results = [t \in Threads |-> <<>>]
    /\ removed = {}
    /\ ret = Gave("none", "None")
    /\ task = [t \in Threads |-> NoTask]
    /\ NoPipeline
    /\ guard = NoGuard
    /\ api = NoApi

----------------------------------------------------------------------------
\* The methods of TaskRegistry. Each `with self._lock:` block is one step: the
\* lock makes the blocks of all threads mutually exclusive.

\* Variant: the registry remembers cancel_all(id) until cleanup(id), and
\* register cancels a handle of such an id instead of keeping it.
RegisterCancelsWhenMarked(t, id, h) ==
    /\ Free(t)
    /\ IsNew(h)
    /\ created' = created \cup {h}
    /\ active' = IF cancel_requested[id] = "marked" THEN active
                 ELSE SetDefaultAppend(active, id, h)
    /\ cancel_calls' = IF cancel_requested[id] = "marked" THEN CancelHandle(cancel_calls, h)
                       ELSE cancel_calls
    /\ ret' = Gave("register", "None")
    /\ UNCHANGED <<is_complete, cancel_requested, removed, results, task>>
    /\ UNCHANGED pipeline_vars

\* register(session_id, result), called directly with a new handle.
register(t, id, h) ==
    /\ Free(t)
    /\ IsNew(h)
    /\ created' = created \cup {h}
    /\ active' = SetDefaultAppend(active, id, h)
    /\ ret' = Gave("register", "None")
    /\ UNCHANGED <<is_complete, cancel_calls, cancel_requested, removed, results, task>>
    /\ UNCHANGED pipeline_vars

\* unregister(session_id, result), called directly.
unregister(t, id, h) ==
    /\ Free(t)
    /\ active' = RemoveResult(active, id, h)
    /\ removed' = removed \cup (Range(ListOf(active, id)) \cap {h})
    /\ ret' = Gave("unregister", UnregisterOutcome(active, id, h))
    /\ UNCHANGED <<is_complete, cancel_calls, created, cancel_requested, results, task>>
    /\ UNCHANGED pipeline_vars

\* cancel_all(session_id): the pop under the lock. The loop over the popped
\* list runs outside the lock, one iteration per CancelAllLoop step.
cancel_all(t, id) ==
    /\ Free(t)
    /\ active' = DictDel(active, id)
    /\ results' = [results EXCEPT ![t] = ListOf(active, id)]
    /\ cancel_requested' = [cancel_requested EXCEPT ![id] = "marked"]
    /\ removed' = removed \cup Range(ListOf(active, id))
    /\ ret' = IF ListOf(active, id) = <<>> THEN Gave("cancel_all", "None") ELSE ret
    /\ UNCHANGED <<is_complete, cancel_calls, created, task>>
    /\ UNCHANGED pipeline_vars

\* One iteration of `for result in results`; the method returns None after
\* the last.
CancelAllLoop(t) ==
    /\ results[t] # <<>>
    /\ cancel_calls' = IF ShouldCancel(Head(results[t]))
                       THEN CancelHandle(cancel_calls, Head(results[t]))
                       ELSE cancel_calls
    /\ results' = [results EXCEPT ![t] = Tail(@)]
    /\ ret' = IF Tail(results[t]) = <<>> THEN Gave("cancel_all", "None") ELSE ret
    /\ UNCHANGED <<active, is_complete, created, cancel_requested, removed, task>>
    /\ UNCHANGED pipeline_vars

\* cleanup(session_id)
cleanup(t, id) ==
    /\ Free(t)
    /\ active' = DictDel(active, id)
    /\ cancel_requested' = [cancel_requested EXCEPT ![id] =
                               IF @ = "never" THEN "never" ELSE "cleared"]
    /\ removed' = removed \cup Range(ListOf(active, id))
    /\ ret' = Gave("cleanup", "None")
    /\ UNCHANGED <<is_complete, cancel_calls, created, results, task>>
    /\ UNCHANGED pipeline_vars

\* is_cancelled(session_id): TaskRegistry defines no such attribute, so the
\* call made by scout_orchestrator._check_cancelled raises AttributeError.
is_cancelled(t, id) ==
    /\ Free(t)
    /\ id \in Ids
    /\ ret' = Gave("is_cancelled", "AttributeError")
    /\ UNCHANGED <<active, is_complete, cancel_calls, created, cancel_requested, removed, results, task>>
    /\ UNCHANGED pipeline_vars

\* The agent run behind a handle finishes.
Complete(h) ==
    /\ h \in created
    /\ ~is_complete[h]
    /\ is_complete' = [is_complete EXCEPT ![h] = TRUE]
    /\ UNCHANGED <<active, cancel_calls, created, cancel_requested, removed, results, ret, task>>
    /\ UNCHANGED pipeline_vars

----------------------------------------------------------------------------
\* run_agent_streamed(agent, agent_input, session_id, timeout)

\* Variant: the handler catches an exception class that the timeout is not.
CaughtByExceptNever(e) == FALSE

\* `except TimeoutError`: the exceptions whose handler cancels the handle.
CaughtByExcept(e) == e = "TimeoutError"

\* What the bare `raise` in the handler (or no handler at all) propagates.
Propagated(e) == e

\* Variant: unregister after the await instead of in a finally clause.
UnregisterOnReturn(res, d, k, x) ==
    IF res \in StreamErrors THEN d ELSE RemoveResult(d, k, x)

\* finally: task_registry.unregister(session_id, result), whatever the
\* outcome res of the try block.
FinallyUnregister(res, d, k, x) == RemoveResult(d, k, x)

\* result = Runner.run_streamed(...); task_registry.register(session_id, result);
\* then the task waits in `await asyncio.wait_for(consume(), timeout)`.
run_agent_streamed(t, id) ==
    /\ Free(t)
    /\ \E h \in Handles :
          /\ IsNew(h)
          /\ created' = created \cup {h}
          /\ active' = SetDefaultAppend(active, id, h)
          /\ task' = [task EXCEPT ![t] = [step |-> "drain", id |-> id, h |-> h]]
    /\ UNCHANGED <<is_complete, cancel_calls, cancel_requested, removed, results, ret>>
    /\ UNCHANGED pipeline_vars

\* The stream ends inside the timeout: return result.final_output (None when
\* the run was cancelled), through the finally clause. The function has no
\* await after the one it drains in, so it runs to its end in one step.
DrainReturn(t, out) ==
    /\ task[t].step = "drain"
    /\ out \in {"final_output", "None"}
    /\ active' = FinallyUnregister(out, active, task[t].id, task[t].h)
    /\ removed' = removed \cup (Range(ListOf(active, task[t].id)) \ Range(ListOf(active', task[t].id)))
    /\ task' = [task EXCEPT ![t] = NoTask]
    /\ ret' = Gave("run_agent_streamed", out)
    /\ UNCHANGED <<is_complete, cancel_calls, created, cancel_requested, results>>
    /\ UNCHANGED pipeline_vars

\* Draining ends with exception e: asyncio.wait_for gives up (TimeoutError),
\* or result.stream_events() raises. The except clause, then the finally clause.
DrainRaise(t, e) ==
    /\ task[t].step = "drain"
    /\ e \in StreamErrors
    /\ cancel_calls' = IF CaughtByExcept(e)
                       THEN CancelHandle(cancel_calls, task[t].h)
                       ELSE cancel_calls
    /\ active' = FinallyUnregister(e, active, task[t].id, task[t].h)
    /\ removed' = removed \cup (Range(ListOf(active, task[t].id)) \ Range(ListOf(active', task[t].id)))
    /\ task' = [task EXCEPT ![t] = NoTask]
    /\ ret' = Gave("run_agent_streamed", Propagated(e))
    /\ UNCHANGED <<is_complete, created, cancel_requested, results>>
    /\ UNCHANGED pipeline_vars

----------------------------------------------------------------------------
\* The registry called directly from several threads.
Next ==
    \/ \E t \in Threads, id \in Ids, h \in Handles :
          \/ register(t, id, h)
          \/ unregister(t, id, h)
    \/ \E t \in Threads, id \in Ids :
          \/ cancel_all(t, id)
          \/ cleanup(t, id)
          \/ is_cancelled(t, id)
    \/ \E t \in Threads : CancelAllLoop(t)
    \/ \E h \in Handles : Complete(h)

Spec == Init /\ [][Next]_vars

\* Agent calls through run_agent_streamed, cancelled and cleaned up by the
\* API endpoints (api/drill.py, api/scout.py).
NextWrapper ==
    \/ \E t \in Threads, id \in Ids :
          \/ run_agent_streamed(t, id)
          \/ cancel_all(t, id)
          \/ cleanup(t, id)
    \/ \E t \in Threads :
          \/ CancelAllLoop(t)
          \/ \E out \in {"final_output", "None"} : DrainReturn(t, out)
          \/ \E e \in StreamErrors : DrainRaise(t, e)
    \/ \E h \in Handles : Complete(h)

SpecWrapper == Init /\ [][NextWrapper]_vars

----------------------------------------------------------------------------
\* Properties of the registry (checked under Spec).

\* How often handle h occurs in the lists of d.
Occurrences(d, h) ==
    Cardinality(UNION {{<<k, i>> : i \in {j \in DOMAIN d[k] : d[k][j] = h}} : k \in DOMAIN d})

\* C1: a handle registered under an id after cancel_all(id) and before any
\* cleanup(id) is cancelled at once (one cancel call in immediate mode) and
\* is not left in the active map.
C1_RegisterAfterCancelAllCancels ==
    [][\A t \in Threads, id \in Ids, h \in Handles :
          (register(t, id, h) /\ cancel_requested[id] = "marked") =>
              /\ cancel_calls'[h] = cancel_calls[h] + 1
              /\ h \notin Range(ListOf(active', id))]_vars

\* C2: once cleanup(id) has followed cancel_all(id), register(id, h) does not
\* cancel h and h is in the list of id (also when a handle was registered
\* between the cancel_all and the cleanup).
C2_RegisterAfterCleanupKeeps ==
    [][\A t \in Threads, id \in Ids, h \in Handles :
          (register(t, id, h) /\ cancel_requested[id] = "cleared") =>
              /\ cancel_calls' = cancel_calls
              /\ h \in Range(ListOf(active', id))
              /\ \A g \in Range(ListOf(active, id)) : g \in Range(ListOf(active', id))]_vars

\* A handle registered after cancel_all(id) then cleanup(id) is in the list of
\* id, next to one registered before it in the same way, and is not cancelled.
C2_Witness ==
    \E id \in Ids :
        /\ cancel_requested[id] = "cleared"
        /\ ret.op = "register"
        /\ Len(ListOf(active, id)) = 2
        /\ \A h \in Range(ListOf(active, id)) : cancel_calls[h] = 0

\* C3: is_cancelled(id) returns True exactly when a cancel_all(id) has occurred
\* with no cleanup(id) after it, and False otherwise (never cancelled, or
\* cleaned up).
C3_IsCancelledTracksCancelAll ==
    [][\A t \in Threads, id \in Ids :
          is_cancelled(t, id) =>
              ret'.val = IF cancel_requested[id] = "marked" THEN "True" ELSE "False"]_vars

\* C4: cancel_all(id) removes id from the active map and takes its whole list;
\* its loop calls cancel once on every taken handle that is not complete and
\* not at all on one that is complete; with no handles under id it returns
\* None and cancels nothing. No handle is cancelled twice.
C4_CancelAllCancelsIncompleteOnce ==
    /\ [][\A t \in Threads :
             /\ \A id \in Ids : cancel_all(t, id) =>
                   /\ id \notin DOMAIN active'
                   /\ results'[t] = ListOf(active, id)
                   /\ cancel_calls' = cancel_calls
                   /\ (ListOf(active, id) = <<>> => ret' = Gave("cancel_all", "None"))
             /\ CancelAllLoop(t) =>
                   /\ \A h \in Handles :
                         cancel_calls'[h] =
                             IF h = Head(results[t]) /\ ~is_complete[h]
                             THEN cancel_calls[h] + 1
                             ELSE cancel_calls[h]
                   /\ results'[t] = Tail(results[t])]_vars
    /\ [](\A h \in Handles : cancel_calls[h] <= 1 /\ (cancel_calls[h] = 1 => h \in removed))

\* A cancel_all has ended that took two handles, cancelled the incomplete one
\* and skipped the complete one.
C4_Witness ==
    \E h1, h2 \in Handles :
        /\ h1 # h2
        /\ ret = Gave("cancel_all", "None")
        /\ {h1, h2} \subseteq removed
        /\ cancel_calls[h1] = 1
        /\ is_complete[h2] /\ cancel_calls[h2] = 0
        /\ \A t \in Threads : results[t] = <<>>

\* C5: unregister(id, h) of a registered handle removes that handle alone: the
\* entry of id is dropped when h was its only handle, and otherwise keeps the
\* other handles in their order; the lists of other ids stay.
C5_UnregisterRemovesOnlyThatHandle ==
    [][\A t \in Threads, id \in Ids, h \in Handles :
          (unregister(t, id, h) /\ h \in Range(ListOf(active, id))) =>
              /\ ListOf(active', id) =
                    LET Other(x) == x # h IN SelectSeq(active[id], Other)
              /\ (Len(active[id]) = 1 => id \notin DOMAIN active')
              /\ (Len(active[id]) > 1 => id \in DOMAIN active')
              /\ \A k \in Ids \ {id} :
                    (k \in DOMAIN active') = (k \in DOMAIN active)
                    /\ ListOf(active', k) = ListOf(active, k)]_vars

\* An unregister has removed one of two handles of an id; the other is still
\* registered.
C5_Witness ==
    \E id \in Ids :
        /\ ret.op = "unregister"
        /\ Len(ListOf(active, id)) = 1
        /\ Cardinality(removed) = 1
        /\ cancel_requested = [k \in Ids |-> "never"]
        /\ \A h \in removed : cancel_calls[h] = 0

\* C6: unregister(id, h) for an id without entry, or for a handle that is not
\* in the list of id, raises nothing and changes neither the active map nor
\* any handle.
C6_UnregisterIdempotent ==
    [][\A t \in Threads, id \in Ids, h \in Handles :
          (unregister(t, id, h) /\ h \notin Range(ListOf(active, id))) =>
              /\ ret' = Gave("unregister", "None")
              /\ active' = active
              /\ cancel_calls' = cancel_calls
              /\ is_complete' = is_complete]_vars

\* The only handle ever created is still registered although an unregister
\* has just ended: that call named another id or another handle.
C6_Witness ==
    /\ ret = Gave("unregister", "None")
    /\ Cardinality(created) = 1
    /\ removed = {}
    /\ \E id \in DOMAIN active : Range(active[id]) = created

\* C7: cleanup(id) cancels once every handle still registered under id that is
\* not complete, cancels no other handle, and removes id from the active map.
C7_CleanupCancelsIncomplete ==
    [][\A t \in Threads, id \in Ids :
          cleanup(t, id) =>
              /\ id \notin DOMAIN active'
              /\ \A h \in Handles :
                    cancel_calls'[h] =
                        IF h \in Range(ListOf(active, id)) /\ ~is_complete[h]
                        THEN cancel_calls[h] + 1
                        ELSE cancel_calls[h]]_vars

\* C8: no registered handle is lost and no list is corrupted, whatever the
\* interleaving of the threads: every handle that was registered and not
\* removed since is in the registry exactly once, and no other handle is in
\* it. With nothing removed, the lists hold exactly the registered handles.
C8_NoHandleLost ==
    /\ \A h \in created \ removed : Occurrences(active, h) = 1
    /\ \A h \in Handles \ (created \ removed) : Occurrences(active, h) = 0
    /\ \A id \in DOMAIN active : active[id] # <<>>

\* Every handle of the model has been registered under one id and none has
\* been removed.
C8_Witness ==
    \E id \in Ids :
        /\ removed = {}
        /\ created = Handles
        /\ Range(ListOf(active, id)) = Handles
        /\ Len(active[id]) = NumHandles

\* C34: a cancel_all(id) that finds nothing registered under id is a safe
\* no-op: it returns None, takes no handle, cancels nothing and leaves the
\* registry as it was; and it is not remembered: a handle registered under id
\* after a cancel_all(id), with or without a cleanup(id) between them, is
\* kept in the list of id and gets no cancel call from its registration.
C34_LateCancelIsNoOp ==
    [][\A t \in Threads, id \in Ids :
          /\ (cancel_all(t, id) /\ id \notin DOMAIN active) =>
                /\ ret' = Gave("cancel_all", "None")
                /\ results'[t] = <<>>
                /\ active' = active
                /\ cancel_calls' = cancel_calls
          /\ \A h \in Handles :
                (register(t, id, h) /\ cancel_requested[id] # "never") =>
                    /\ cancel_calls' = cancel_calls
                    /\ h \in Range(ListOf(active', id))]_vars

\* A handle was registered under an id after a cancel_all of that id which
\* found nothing (no handle was ever taken out of the registry): it is the
\* id's only handle and has no cancel call.
C34_Witness ==
    \E id \in Ids, h \in Handles :
        /\ cancel_requested[id] = "marked"
        /\ removed = {}
        /\ ret = Gave("register", "None")
        /\ ListOf(active, id) = <<h>>
        /\ cancel_calls[h] = 0
        /\ \A t \in Threads : results[t] = <<>>

\* The handles in the lists of the registry.
Registered == UNION {Range(active[id]) : id \in DOMAIN active}

\* C35: when cancel_all and cleanup calls of several threads run at once,
\* every registered handle is taken by one of them only: a handle in the list
\* a cancel_all popped is no longer in the registry, is in the popped list of
\* no other cancel_all and is in its own list once, and a list that cancel_all
\* or cleanup pops is out of the registry after the step; so the registry
\* makes at most one cancel call per handle.
C35_EachHandleTakenOnce ==
    /\ [](\A t \in Threads :
             /\ Range(results[t]) \cap Registered = {}
             /\ \A u \in Threads \ {t} : Range(results[t]) \cap Range(results[u]) = {}
             /\ \A i, j \in DOMAIN results[t] : results[t][i] = results[t][j] => i = j)
    /\ [](\A h \in Handles : cancel_calls[h] <= 1)
    /\ [][\A t \in Threads, id \in Ids :
             (cancel_all(t, id) \/ cleanup(t, id)) =>
                 /\ id \notin DOMAIN active'
                 /\ \A h \in Range(ListOf(active, id)) :
                       /\ Occurrences(active', h) = 0
                       /\ \A u \in Threads \ {t} : h \notin Range(results'[u])]_vars

\* Two cancel_all calls are in their loops at once, each with a handle of
\* its own that it has not visited yet.
C35_Witness ==
    \E t, u \in Threads :
        /\ t # u
        /\ results[t] # <<>>
        /\ results[u] # <<>>
        /\ Head(results[t]) # Head(results[u])

----------------------------------------------------------------------------
\* Properties of run_agent_streamed (checked under SpecWrapper).

\* Some call of run_agent_streamed for id has not ended yet.
InFlight(id) == \E t \in Threads : task[t].step = "drain" /\ task[t].id = id

\* C9: run_agent_streamed registers its handle under the session id once
\* before it drains, and on every exit (return, timeout, exception) the
\* handle is out of the registry; so an id with no call in flight has no
\* handle left.
C9_WrapperAlwaysUnregisters ==
    /\ [][\A t \in Threads :
             /\ \A id \in Ids : run_agent_streamed(t, id) =>
                   /\ task'[t].step = "drain"
                   /\ Occurrences(active', task'[t].h) = 1
                   /\ task'[t].h \in Range(ListOf(active', id))
                   /\ \A g \in Handles \ {task'[t].h} :
                         Occurrences(active', g) = Occurrences(active, g)
             /\ (task[t].step = "drain" /\ task'[t].step = "idle") =>
                   /\ Occurrences(active', task[t].h) = 0
                   /\ \A g \in Handles \ {task[t].h} :
                         Occurrences(active', g) = Occurrences(active, g)]_vars
    /\ [](\A id \in Ids : ~InFlight(id) => id \notin DOMAIN active)

\* A call has ended with an exception while another call for an id is still
\* draining: only the handle of the call in flight is registered.
C9_Witness ==
    \E t \in Threads :
        /\ task[t].step = "drain"
        /\ ret = Gave("run_agent_streamed", "InputGuardrailTripwireTriggered")
        /\ Cardinality(created) = 2
        /\ cancel_requested = [k \in Ids |-> "never"]
        /\ DOMAIN active = {task[t].id}
        /\ active[task[t].id] = <<task[t].h>>

\* C10: when draining ends by the timeout the handle is cancelled once (in
\* immediate mode) and TimeoutError reaches the caller; any other exception
\* raised while draining reaches the caller unchanged.
C10_TimeoutCancelsAndErrorsPropagate ==
    [][\A t \in Threads, e \in StreamErrors :
          DrainRaise(t, e) =>
              /\ ret' = Gave("run_agent_streamed", e)
              /\ (e = "TimeoutError" =>
                     cancel_calls' = [cancel_calls EXCEPT ![task[t].h] = @ + 1])]_vars

\* A call has ended with TimeoutError and its handle has one cancel call,
\* which no cancel_all can have made.
C10_Witness ==
    /\ ret = Gave("run_agent_streamed", "TimeoutError")
    /\ cancel_requested = [k \in Ids |-> "never"]
    /\ \E h \in created : cancel_calls[h] = 1

----------------------------------------------------------------------------
\* The streaming pipelines: services/company_research.py and
\* services/drill_generation.py. One run of one pipeline under one session id,
\* with the cancel endpoint (api/drill.py) calling cancel_all beside it.
\* A generator runs from one suspension to the next in one step: the code
\* between two awaits is not interleaved with any other task of the loop.

\* Bound of the model: the longest search plan the planner returns.
MaxPlan == 2

\* app/agents/drill/__init__.py
HOW_MANY_GENERATORS == 3

\* The correlation id of the run.
SessionId == "session-1"

\* The handles Runner.run_streamed can return in one research run: one for
\* the planner, one per search, one for the summarizer.
StreamHandles == 1..(MaxPlan + 2)

\* The tripwire exceptions of the agents SDK.
Guardrails == {"InputGuardrailTripwireTriggered", "OutputGuardrailTripwireTriggered"}

\* How an agent call can end: a final output, no output (None), or an
\* exception (the timeout of asyncio.wait_for, a tripwire, a provider error).
AgentOutcomes == {"final_output", "None"} \cup StreamErrors \cup Guardrails

\* app/agents/guardrails/exceptions.py
SAFE_INJECTION_MESSAGE ==
    "Unable to process this request. Please provide a valid company name and role."

SAFE_LEAKAGE_MESSAGE ==
    "Research completed but results could not be displayed. Please try again."

\* An exception of class cls whose str() is msg.
Exc(cls, msg) == [cls |-> cls, msg |-> msg]

\* The exception an agent call raises when it ends with outcome o.
AgentRaises(o) == Exc(o, "text of the agent's exception")

\* The event dicts. A message is the sequence of the pieces of its f-string.
StatusEvent(m) == [type |-> "status", message |-> m]

ErrorEvent(m) == [type |-> "error", message |-> m]

CompleteEvent(d) == [type |-> "complete", data |-> d]

CandidateEvent(g, title) == [type |-> "candidate", generator |-> g, title |-> title]

\* Strings that are put together are sequences of tokens: the output of
\* search i is the token i, a newline is the token 0.
Str(i) == <<i>>

Newline == 0

\* Variant: the results are joined by a single newline.
JoinBySingleNewline(s) ==
    LET RECURSIVE J(_)
        J(r) == IF r = <<>> THEN <<>>
                ELSE IF Len(r) = 1 THEN Head(r)
                ELSE Head(r) \o <<Newline>> \o J(Tail(r))
    IN J(s)

\* "\n\n".join(search_results)
Join(s) ==
    LET RECURSIVE J(_)
        J(r) == IF r = <<>> THEN <<>>
                ELSE IF Len(r) = 1 THEN Head(r)
                ELSE Head(r) \o <<Newline, Newline>> \o J(Tail(r))
    IN J(s)

\* The handle Runner.run_streamed returns next (handles are numbered in the
\* order in which they are created).
NewHandle == Cardinality(created) + 1

\* run_agent_streamed up to its await: Runner.run_streamed, then register.
StartCall(h) ==
    /\ created' = created \cup {h}
    /\ active' = SetDefaultAppend(active, SessionId, h)

\* run_agent_streamed from its await on, when draining ends with outcome o:
\* the except clause (cancel on timeout), then the finally clause.
EndCall(h, o) ==
    /\ cancel_calls' = IF o \in StreamErrors /\ CaughtByExcept(o)
                       THEN CancelHandle(cancel_calls, h)
                       ELSE cancel_calls
    /\ active' = FinallyUnregister(o, active, SessionId, h)
    /\ removed' = removed \cup
                     (Range(ListOf(active, SessionId)) \ Range(ListOf(active', SessionId)))

\* What run_agent_streamed gives its caller when draining ends with o: the
\* final output (None included) is returned, an exception is raised.
Returned(o) ==
    Gave("run_agent_streamed", IF o \in {"final_output", "None"} THEN o ELSE Propagated(o))

\* cancel_all's loop over the popped list rs, run to its end.
RECURSIVE CancelEach(_, _)
CancelEach(calls, rs) ==
    IF rs = <<>> THEN calls
    ELSE CancelEach(IF ShouldCancel(Head(rs)) THEN CancelHandle(calls, Head(rs)) ELSE calls,
                    Tail(rs))

\* api/drill.py cancel_generation: task_registry.cancel_all(session_id). The
\* endpoint is a coroutine of the event loop the pipeline runs on and
\* cancel_all awaits nothing, so the pop and the loop are one step here.
cancel_generation ==
    /\ active' = DictDel(active, SessionId)
    /\ cancel_calls' = CancelEach(cancel_calls, ListOf(active, SessionId))
    /\ cancel_requested' = [cancel_requested EXCEPT ![SessionId] = "marked"]
    /\ removed' = removed \cup Range(ListOf(active, SessionId))
    /\ ret' = Gave("cancel_all", "None")
    /\ UNCHANGED <<is_complete, created, results, task>>
    /\ UNCHANGED pipeline_vars

\* A task made by asyncio.create_task that has not run yet.
NewTask == [st |-> "created", h |-> NoHandle, out |-> "none"]

\* The next task asyncio.as_completed delivers.
NextFinished == finished[completed + 1]

----------------------------------------------------------------------------
\* company_research.py

\* Variant: the timeout of a search is re-raised like a tripwire.
SingleSearchTimeoutRaises(item, o) ==
    IF o = "final_output"
    THEN [raised |-> "none", reason |-> item, result |-> Str(item), status |-> "success"]
    ELSE IF o \in Guardrails \cup {"TimeoutError"}
    THEN [raised |-> o, reason |-> item, result |-> <<>>, status |-> "raised"]
    ELSE [raised |-> "none", reason |-> item, result |-> <<>>, status |-> "failed"]

\* Variant: a search without output counts as a success with an empty result.
SingleSearchNoneSucceeds(item, o) ==
    IF o = "final_output"
    THEN [raised |-> "none", reason |-> item, result |-> Str(item), status |-> "success"]
    ELSE IF o = "None"
    THEN [raised |-> "none", reason |-> item, result |-> <<>>, status |-> "success"]
    ELSE IF o = "TimeoutError"
    THEN [raised |-> "none", reason |-> item, result |-> <<>>, status |-> "timed_out"]
    ELSE IF o \in Guardrails
    THEN [raised |-> o, reason |-> item, result |-> <<>>, status |-> "raised"]
    ELSE [raised |-> "none", reason |-> item, result |-> <<>>, status |-> "failed"]

\* _run_single_search(item, session_id) when its agent call ends with o: the
\* tuple (reason, result, status) it returns, or the tripwire it re-raises.
\* The reason of plan entry i is i; a result of None is the empty string here.
SingleSearch(item, o) ==
    IF o = "final_output"
    THEN [raised |-> "none", reason |-> item, result |-> Str(item), status |-> "success"]
    ELSE IF o = "None"
    THEN [raised |-> "none", reason |-> item, result |-> <<>>, status |-> "failed"]
    ELSE IF o = "TimeoutError"
    THEN [raised |-> "none", reason |-> item, result |-> <<>>, status |-> "timed_out"]
    ELSE IF o \in Guardrails
    THEN [raised |-> o, reason |-> item, result |-> <<>>, status |-> "raised"]
    ELSE [raised |-> "none", reason |-> item, result |-> <<>>, status |-> "failed"]

\* Variant: the counter is the number of the plan entry.
ProgressMessageByEntry(status, k, total, reason) ==
    IF status = "success" THEN <<"Completed (", reason, "/", total, "): ", reason>>
    ELSE IF status = "timed_out"
    THEN <<"Timed out (", reason, "/", total, "): ", reason, ", continuing...">>
    ELSE <<"Failed (", reason, "/", total, "): ", reason, ", continuing...">>

\* The message of _execute_searches for the k-th completed search of total.
ProgressMessage(status, k, total, reason) ==
    IF status = "success" THEN <<"Completed (", k, "/", total, "): ", reason>>
    ELSE IF status = "timed_out"
    THEN <<"Timed out (", k, "/", total, "): ", reason, ", continuing...">>
    ELSE <<"Failed (", k, "/", total, "): ", reason, ", continuing...">>

\* Variant: a stage that times out goes on as if it had its output.
StageRaisesExceptTimeout(o, text) ==
    IF o \in {"final_output", "TimeoutError"} THEN Exc("none", "")
    ELSE IF o = "None" THEN Exc("RuntimeError", text)
    ELSE AgentRaises(o)

\* What _plan_searches and _summarize_results raise when their agent call
\* ends with o (class "none": they return the output): an exception of the
\* call passes through, and `if output is None: raise RuntimeError(text)`.
StageRaises(o, text) ==
    IF o = "final_output" THEN Exc("none", "")
    ELSE IF o = "None" THEN Exc("RuntimeError", text)
    ELSE AgentRaises(o)

\* The classes below Exception among those raised here.
ExceptionSubclasses ==
    {"TimeoutError", "RuntimeError", "AttributeError", "ValueError"} \cup Guardrails

\* Variant: the except clauses end with `except TimeoutError`.
ResearchCatchesNamedOnly(e) == e.cls \in Guardrails \cup {"TimeoutError"}

\* The except clauses of research_company_stream catch e: the two tripwires,
\* TimeoutError, and `except Exception`.
ResearchCatches(e) ==
    e.cls \in Guardrails \cup {"TimeoutError"} \/ e.cls \in ExceptionSubclasses

\* Where a generator is after exception e reached its except clauses: at its
\* end when a clause caught e, else e leaves it ("raised").
AfterExcept(caught) == IF caught THEN "done" ELSE "raised"

\* Variant: every exception is reported by the last except clause.
ResearchErrorMessageGeneric(e) == <<"Research failed: ", e.msg>>

\* The except clauses of research_company_stream: the message of the error
\* event for exception e.
ResearchErrorMessage(e) ==
    IF e.cls = "InputGuardrailTripwireTriggered" THEN <<SAFE_INJECTION_MESSAGE>>
    ELSE IF e.cls = "OutputGuardrailTripwireTriggered" THEN <<SAFE_LEAKAGE_MESSAGE>>
    ELSE IF e.cls = "TimeoutError" THEN <<"Research timed out. Please try again.">>
    ELSE <<"Research failed: ", e.msg>>

\* The summary the summarizing agent makes of its input.
Summary(input) == [summary_of |-> input]

\* The events of research_company_stream's except clauses for exception e.
ResearchExcept(e) ==
    IF ResearchCatches(e) THEN <<ErrorEvent(ResearchErrorMessage(e))>> ELSE <<>>

\* Variant: the check takes every run for one without success.
NoSuccessAlways(rs) == TRUE

\* Variant: the zero-successes check is left out.
NoSuccessNever(rs) == FALSE

\* `if not search_results`
NoSuccess(rs) == rs = <<>>

\* Variant: the generator goes on to the summarizing stage after the error
\* event of the zero-successes check.
GoesOnAfterError == FALSE

\* The `return` after the error event of the zero-successes check.
ReturnsAfterError == TRUE

\* Variant: the stream waits for the searches of an empty plan too.
AfterPlanningWaits(n) == "searches"

\* Where research_company_stream is after a plan of n queries: in the loop
\* over as_completed, which ends at once for no task, so that the
\* zero-successes check ends the stream.
AfterPlanning(n) == IF n = 0 THEN "done" ELSE "searches"

\* research_company_stream up to the await in _plan_searches: the planning
\* status, then run_agent_streamed(planner_agent, ...) registers its handle.
research_company_stream ==
    /\ pipeline = "none"
    /\ pipeline' = "research_company_stream"
    /\ events' = <<StatusEvent(<<"Planning research strategy...">>)>>
    /\ StartCall(NewHandle)
    /\ awaited' = NewHandle
    /\ stage' = [stage EXCEPT !["planner_agent"] = "in flight"]
    /\ pc' = "plan"
    /\ UNCHANGED <<is_complete, cancel_calls, cancel_requested, removed, results, ret, task>>
    /\ UNCHANGED <<tasks, finished, completed, search_results, candidates, combined>>
    /\ UNCHANGED call_vars

\* The planner call ends with outcome o; n is the length of the plan it
\* returns. With a plan: the "Found" status, the search tasks are created and
\* the generator waits for the first of them (an empty plan falls through to
\* the zero-successes check). Without: the error event of the except clause.
PlanEnd(o, n) ==
    /\ pipeline = "research_company_stream"
    /\ pc = "plan"
    /\ o # "final_output" => n = 0
    /\ EndCall(awaited, o)
    /\ ret' = Returned(o)
    /\ awaited' = NoHandle
    /\ stage' = [stage EXCEPT !["planner_agent"] = o]
    /\ LET e == StageRaises(o, "Search planning returned no result")
       IN IF e.cls = "none"
          THEN /\ tasks' = [i \in 1..n |-> NewTask]
               /\ events' = events \o <<StatusEvent(<<"Found ", n, " areas to research">>)>> \o
                     (IF n = 0
                      THEN <<ErrorEvent(<<"All searches failed. Please try again.">>)>>
                      ELSE <<>>)
               /\ pc' = AfterPlanning(n)
          ELSE /\ tasks' = tasks
               /\ events' = events \o ResearchExcept(e)
               /\ pc' = AfterExcept(ResearchCatches(e))
    /\ UNCHANGED <<is_complete, created, cancel_requested, results, task>>
    /\ UNCHANGED <<pipeline, finished, completed, search_results, candidates, combined>>
    /\ UNCHANGED call_vars

\* A search task runs for the first time: _run_single_search up to the await
\* in run_agent_streamed. The loop starts tasks in the order of creation.
SearchStart(i) ==
    /\ pipeline = "research_company_stream"
    /\ i \in DOMAIN tasks
    /\ tasks[i].st = "created"
    /\ \A j \in DOMAIN tasks : j < i => tasks[j].st # "created"
    /\ StartCall(NewHandle)
    /\ tasks' = [tasks EXCEPT ![i] = [st |-> "running", h |-> NewHandle, out |-> "none"]]
    /\ UNCHANGED <<is_complete, cancel_calls, cancel_requested, removed, results, ret, task>>
    /\ UNCHANGED <<pipeline, pc, events, stage, awaited, finished, completed,
                   search_results, candidates, combined>>
    /\ UNCHANGED call_vars

\* The agent call of search i ends with outcome o: run_agent_streamed's
\* except and finally clauses, then the task is done and as_completed queues it.
SearchEnd(i, o) ==
    /\ pipeline = "research_company_stream"
    /\ i \in DOMAIN tasks
    /\ tasks[i].st = "running"
    /\ EndCall(tasks[i].h, o)
    /\ ret' = Returned(o)
    /\ tasks' = [tasks EXCEPT ![i] = [st |-> "done", h |-> @.h, out |-> o]]
    /\ finished' = Append(finished, i)
    /\ UNCHANGED <<is_complete, created, cancel_requested, results, task>>
    /\ UNCHANGED <<pipeline, pc, events, stage, awaited, completed,
                   search_results, candidates, combined>>
    /\ UNCHANGED call_vars

\* The loop runs the first step of every task made by create_task before it
\* resumes the generator that waits in as_completed, so all tasks have
\* started when one is taken.
\* One turn of `for coro in asyncio.as_completed(tasks)` in _execute_searches
\* and of the `async for` in research_company_stream: the status of the search
\* that ended next, its result if it succeeded; a re-raised tripwire ends the
\* stream with the error event. After the last search: the zero-successes
\* check, or the "Analyzing" status and the call of the summarizing agent.
TakeSearch ==
    /\ pipeline = "research_company_stream"
    /\ pc = "searches"
    /\ completed < Len(finished)
    /\ \A i \in DOMAIN tasks : tasks[i].st # "created"
    /\ LET r == SingleSearch(NextFinished, tasks[NextFinished].out)
           k == completed + 1
           total == Len(tasks)
           status == StatusEvent(ProgressMessage(r.status, k, total, r.reason))
           rs == IF r.status = "success" THEN Append(search_results, r.result)
                 ELSE search_results
       IN IF r.raised # "none"
          THEN /\ events' = events \o ResearchExcept(AgentRaises(r.raised))
               /\ pc' = AfterExcept(ResearchCatches(AgentRaises(r.raised)))
               /\ UNCHANGED <<completed, search_results, combined, stage, awaited,
                              created, active>>
          ELSE /\ completed' = k
               /\ search_results' = rs
               /\ IF k < total
                  THEN /\ events' = Append(events, status)
                       /\ UNCHANGED <<pc, combined, stage, awaited, created, active>>
                  ELSE IF NoSuccess(rs) /\ ReturnsAfterError
                  THEN /\ events' = events \o
                             <<status, ErrorEvent(<<"All searches failed. Please try again.">>)>>
                       /\ pc' = "done"
                       /\ UNCHANGED <<combined, stage, awaited, created, active>>
                  ELSE /\ events' = events \o <<status>> \o
                             (IF NoSuccess(rs)
                              THEN <<ErrorEvent(<<"All searches failed. Please try again.">>)>>
                              ELSE <<>>) \o
                             <<StatusEvent(<<"Analyzing findings...">>)>>
                       /\ combined' = Join(rs)
                       /\ StartCall(NewHandle)
                       /\ awaited' = NewHandle
                       /\ stage' = [stage EXCEPT !["summarizer_agent"] = "in flight"]
                       /\ pc' = "summarize"
    /\ UNCHANGED <<is_complete, cancel_calls, cancel_requested, removed, results, ret, task>>
    /\ UNCHANGED <<pipeline, tasks, finished, candidates>>
    /\ UNCHANGED call_vars

\* The summarizer call ends with outcome o: the complete event, or the error
\* event of the except clause.
SummarizeEnd(o) ==
    /\ pipeline = "research_company_stream"
    /\ pc = "summarize"
    /\ EndCall(awaited, o)
    /\ ret' = Returned(o)
    /\ awaited' = NoHandle
    /\ stage' = [stage EXCEPT !["summarizer_agent"] = o]
    /\ LET e == StageRaises(o, "Research summarization returned no result")
       IN IF e.cls = "none"
          THEN /\ events' = Append(events, CompleteEvent(Summary(combined)))
               /\ pc' = "done"
          ELSE /\ events' = events \o ResearchExcept(e)
               /\ pc' = AfterExcept(ResearchCatches(e))
    /\ UNCHANGED <<is_complete, created, cancel_requested, results, task>>
    /\ UNCHANGED <<pipeline, tasks, finished, completed, search_results, candidates, combined>>
    /\ UNCHANGED call_vars

----------------------------------------------------------------------------
\* scout_analysis.py

\* What analyze_batch makes of the output of its agent call.
BatchResults(o) == IF o = "None" THEN "[]" ELSE "batch_result.results"

\* analyze_batch up to the await in run_agent_streamed.
analyze_batch ==
    /\ pipeline = "none"
    /\ pipeline' = "analyze_batch"
    /\ StartCall(NewHandle)
    /\ awaited' = NewHandle
    /\ pc' = "analyze"
    /\ UNCHANGED <<is_complete, cancel_calls, cancel_requested, removed, results, ret, task>>
    /\ UNCHANGED <<events, stage, tasks, finished, completed, search_results,
                   candidates, combined>>
    /\ UNCHANGED call_vars

\* The agent call of analyze_batch ends with outcome o: the list it returns,
\* or the exception that passes through it.
AnalyzeBatchEnd(o) ==
    /\ pipeline = "analyze_batch"
    /\ pc = "analyze"
    /\ EndCall(awaited, o)
    /\ ret' = Gave("analyze_batch",
                   IF o \in {"final_output", "None"} THEN BatchResults(o) ELSE Propagated(o))
    /\ awaited' = NoHandle
    /\ pc' = "done"
    /\ UNCHANGED <<is_complete, created, cancel_requested, results, task>>
    /\ UNCHANGED <<pipeline, events, stage, tasks, finished, completed,
                   search_results, candidates, combined>>
    /\ UNCHANGED call_vars

----------------------------------------------------------------------------
\* drill_generation.py

\* ALL_GENERATORS: the drill type and the description of every generator.
ALL_GENERATORS ==
    << [type |-> "coding", desc |-> "coding challenge"],
       [type |-> "debugging", desc |-> "debugging scenario"],
       [type |-> "system_design", desc |-> "system design problem"] >>

\* generators = ALL_GENERATORS[:HOW_MANY_GENERATORS]
Generators == SubSeq(ALL_GENERATORS, 1, HOW_MANY_GENERATORS)

\* desc.capitalize()
Capitalize(desc) ==
    IF desc = "coding challenge" THEN "Coding challenge"
    ELSE IF desc = "debugging scenario" THEN "Debugging scenario"
    ELSE "System design problem"

\* The title of the drill that generator g writes.
Title(g) == <<"title of the drill of generator ", g>>

\* The candidate that generator g returns, with candidate.generator_type set
\* to the generator's drill type.
Candidate(g) ==
    [generator_type |-> Generators[g].type, drill |-> [title |-> Title(g)]]

\* Variant: the timeout of a generator is re-raised like a tripwire.
GeneratorTimeoutRaises(g, o) ==
    IF o = "final_output"
    THEN [raised |-> "none", status |-> "success", desc |-> Generators[g].desc]
    ELSE IF o \in Guardrails \cup {"TimeoutError"}
    THEN [raised |-> o, status |-> "raised", desc |-> Generators[g].desc]
    ELSE [raised |-> "none", status |-> "error", desc |-> Generators[g].desc]

\* run_generator_with_status for generator g when Runner.run ends with o: the
\* tuple (status, result, desc) or the tripwire it re-raises. A run without
\* final output fails on `candidate.generator_type = drill_type`
\* (AttributeError), which `except Exception` turns into an "error" tuple.
GeneratorWithStatus(g, o) ==
    IF o = "final_output"
    THEN [raised |-> "none", status |-> "success", desc |-> Generators[g].desc]
    ELSE IF o = "TimeoutError"
    THEN [raised |-> "none", status |-> "timeout", desc |-> Generators[g].desc]
    ELSE IF o \in Guardrails
    THEN [raised |-> o, status |-> "raised", desc |-> Generators[g].desc]
    ELSE [raised |-> "none", status |-> "error", desc |-> Generators[g].desc]

\* The except clauses of generate_drill_stream: the message of the error
\* event for exception e.
DrillErrorMessage(e) ==
    IF e.cls = "InputGuardrailTripwireTriggered" THEN <<SAFE_INJECTION_MESSAGE>>
    ELSE IF e.cls = "OutputGuardrailTripwireTriggered" THEN <<SAFE_LEAKAGE_MESSAGE>>
    ELSE IF e.cls = "TimeoutError"
    THEN <<"Drill generation timed out. Please try again.">>
    ELSE IF e.cls = "ValueError" THEN <<e.msg>>
    ELSE <<"Drill generation failed: ", e.msg>>

\* The except clauses of generate_drill_stream catch e: the two tripwires,
\* TimeoutError, ValueError, and `except Exception`.
DrillCatches(e) ==
    e.cls \in Guardrails \cup {"TimeoutError", "ValueError"} \/ e.cls \in ExceptionSubclasses

\* The events of generate_drill_stream's except clauses for exception e.
DrillExcept(e) ==
    IF DrillCatches(e) THEN <<ErrorEvent(DrillErrorMessage(e))>> ELSE <<>>

\* generate_drill_stream up to its first await: the two opening status
\* events, then the generator tasks are created.
generate_drill_stream ==
    /\ pipeline = "none"
    /\ pipeline' = "generate_drill_stream"
    /\ events' = << StatusEvent(<<"Starting drill generation...">>),
                    StatusEvent(<<"Generating ", Len(Generators),
                                  " drill candidates in parallel...">>) >>
    /\ tasks' = [g \in 1..Len(Generators) |-> NewTask]
    /\ pc' = "generators"
    /\ UNCHANGED registry_vars
    /\ UNCHANGED <<stage, awaited, finished, completed, search_results, candidates, combined>>
    /\ UNCHANGED call_vars

\* The two functions that run the generators: both make one task per
\* generator around asyncio.wait_for(Runner.run(agent, generator_input)).
DrillPipelines == {"generate_drill_stream", "generate_drill"}

\* A generator task runs for the first time, up to the await of
\* asyncio.wait_for(Runner.run(agent, generator_input), timeout): the call has
\* no streaming handle and nothing is registered.
GeneratorStart(g) ==
    /\ pipeline \in DrillPipelines
    /\ g \in DOMAIN tasks
    /\ tasks[g].st = "created"
    /\ \A j \in DOMAIN tasks : j < g => tasks[j].st # "created"
    /\ tasks' = [tasks EXCEPT ![g] = [st |-> "running", h |-> NoHandle, out |-> "none"]]
    /\ UNCHANGED registry_vars
    /\ UNCHANGED <<pipeline, pc, events, stage, awaited, finished, completed,
                   search_results, candidates, combined>>
    /\ UNCHANGED call_vars

\* Runner.run of generator g ends with outcome o; the task is done.
GeneratorEnd(g, o) ==
    /\ pipeline \in DrillPipelines
    /\ g \in DOMAIN tasks
    /\ tasks[g].st = "running"
    /\ tasks' = [tasks EXCEPT ![g] = [st |-> "done", h |-> NoHandle, out |-> o]]
    /\ finished' = Append(finished, g)
    /\ UNCHANGED registry_vars
    /\ UNCHANGED <<pipeline, pc, events, stage, awaited, completed,
                   search_results, candidates, combined>>
    /\ UNCHANGED call_vars

\* Variant: the zero-candidates check never fires.
NoCandidatesNever(cs) == FALSE

\* `if not candidates`
NoCandidates(cs) == cs = <<>>

\* Variant: a single candidate goes to the evaluator like several.
SingleCandidateNever(cs) == FALSE

\* `if len(candidates) == 1`
SingleCandidate(cs) == Len(cs) = 1

\* One turn of `for coro in asyncio.as_completed(tasks)`: the events of the
\* generator that ended next; a re-raised tripwire ends the stream with the
\* error event. After the last generator: no candidate is an error, one
\* candidate is the result, several go to the evaluator.
TakeGenerator ==
    /\ pipeline = "generate_drill_stream"
    /\ pc = "generators"
    /\ completed < Len(finished)
    /\ \A i \in DOMAIN tasks : tasks[i].st # "created"
    /\ LET g == NextFinished
           r == GeneratorWithStatus(g, tasks[g].out)
           cs == IF r.status = "success" THEN Append(candidates, Candidate(g))
                 ELSE candidates
           turn == IF r.status = "success"
                   THEN << CandidateEvent(Candidate(g).generator_type, Title(g)),
                           StatusEvent(<<"Generated ", r.desc, ": ", Title(g)>>) >>
                   ELSE IF r.status = "timeout"
                   THEN << StatusEvent(<<Capitalize(r.desc), " timed out, continuing...">>) >>
                   ELSE << StatusEvent(<<Capitalize(r.desc), " failed, continuing...">>) >>
       IN IF r.raised # "none"
          THEN /\ events' = events \o DrillExcept(AgentRaises(r.raised))
               /\ pc' = AfterExcept(DrillCatches(AgentRaises(r.raised)))
               /\ UNCHANGED <<completed, candidates, stage>>
          ELSE /\ completed' = completed + 1
               /\ candidates' = cs
               /\ IF completed + 1 < Len(tasks)
                  THEN /\ events' = events \o turn
                       /\ UNCHANGED <<pc, stage>>
                  ELSE IF NoCandidates(cs)
                  THEN /\ events' = events \o turn \o
                             <<ErrorEvent(<<"All generators failed. Please try again.">>)>>
                       /\ pc' = "done"
                       /\ UNCHANGED stage
                  ELSE IF SingleCandidate(cs)
                  THEN /\ events' = events \o turn \o
                             << StatusEvent(<<"Only one candidate generated, using it directly.">>),
                                CompleteEvent(cs[1].drill) >>
                       /\ pc' = "done"
                       /\ UNCHANGED stage
                  ELSE /\ events' = events \o turn \o
                             <<StatusEvent(<<"Evaluating ", Len(cs), " candidates...">>)>>
                       /\ stage' = [stage EXCEPT !["evaluator_agent"] = "in flight"]
                       /\ pc' = "evaluate"
    /\ UNCHANGED registry_vars
    /\ UNCHANGED <<pipeline, awaited, tasks, finished, search_results, combined>>
    /\ UNCHANGED call_vars

\* Variant: the result is the first candidate's drill, whatever was selected.
FirstDrill(cands, sel) == cands[1].drill

\* evaluation.selected_drill, for an evaluation that selects candidate sel.
selected_drill(cands, sel) == cands[sel].drill

\* The exception that ends generate_drill_stream's try block when the
\* evaluator's Runner.run ends with o other than an evaluation: a run without
\* final output fails on `evaluation.selection_reasoning` (AttributeError).
EvaluatorException(o) ==
    IF o = "None"
    THEN Exc("AttributeError", "'NoneType' object has no attribute 'selection_reasoning'")
    ELSE AgentRaises(o)

\* Variant: when the evaluator times out the first candidate is the result.
EvaluatorEventsWithFallback(o, sel, cands) ==
    IF o = "final_output"
    THEN << StatusEvent(<<"Selected: ", cands[sel].generator_type,
                          " - ", "reasoning_preview", "...">>),
            CompleteEvent(selected_drill(cands, sel)) >>
    ELSE IF o = "TimeoutError"
    THEN << StatusEvent(<<"Evaluation timed out, using the first candidate.">>),
            CompleteEvent(cands[1].drill) >>
    ELSE DrillExcept(EvaluatorException(o))

\* The events of generate_drill_stream after the evaluator's Runner.run ended
\* with o (sel: the candidate an evaluation selects). With an evaluation: the
\* "Selected" status and the complete event; every exception ends in the
\* error event of its except clause.
EvaluatorEvents(o, sel, cands) ==
    IF o = "final_output"
    THEN << StatusEvent(<<"Selected: ", cands[sel].generator_type,
                          " - ", "reasoning_preview", "...">>),
            CompleteEvent(selected_drill(cands, sel)) >>
    ELSE DrillExcept(EvaluatorException(o))

\* Runner.run of the evaluator ends with outcome o; sel is the candidate its
\* evaluation selects.
EvaluateEnd(o, sel) ==
    /\ pipeline = "generate_drill_stream"
    /\ pc = "evaluate"
    /\ sel \in DOMAIN candidates
    /\ o # "final_output" => sel = 1
    /\ stage' = [stage EXCEPT !["evaluator_agent"] = o]
    /\ events' = events \o EvaluatorEvents(o, sel, candidates)
    /\ pc' = IF o = "final_output" THEN "done"
             ELSE AfterExcept(DrillCatches(EvaluatorException(o)))
    /\ UNCHANGED registry_vars
    /\ UNCHANGED <<pipeline, awaited, tasks, finished, completed, search_results,
                   candidates, combined>>
    /\ UNCHANGED call_vars

\* run_generator of generate_drill for generator g when Runner.run ends with
\* o: the candidate or None it returns, or the tripwire it re-raises. A run
\* without final output fails on `candidate.generator_type = drill_type`
\* (AttributeError), which `except Exception` turns into None.
run_generator(g, o) ==
    IF o = "final_output" THEN [raised |-> "none", result |-> "DrillCandidate"]
    ELSE IF o \in Guardrails THEN [raised |-> o, result |-> "None"]
    ELSE [raised |-> "none", result |-> "None"]

\* results = await asyncio.gather(*tasks, return_exceptions=True): one entry
\* per task in launch order; the exception a task raised is its entry.
GatherResults ==
    [g \in DOMAIN tasks |->
        IF run_generator(g, tasks[g].out).raised # "none" THEN "exception"
        ELSE run_generator(g, tasks[g].out).result]

\* candidates = [r for r in results if isinstance(r, DrillCandidate)]
RECURSIVE FilterCandidates(_, _)
FilterCandidates(rs, g) ==
    IF g > Len(rs) THEN <<>>
    ELSE (IF rs[g] = "DrillCandidate" THEN <<Candidate(g)>> ELSE <<>>)
             \o FilterCandidates(rs, g + 1)

\* The function returned drill d.
Returns(d) == [kind |-> "return", drill |-> d, exc |-> Exc("none", "")]

\* Exception e left the function.
Raises(e) == [kind |-> "raise", drill |-> [title |-> <<>>], exc |-> e]

\* generate_drill up to its first await: the generator tasks are created and
\* gathered.
generate_drill ==
    /\ pipeline = "none"
    /\ pipeline' = "generate_drill"
    /\ tasks' = [g \in 1..Len(Generators) |-> NewTask]
    /\ pc' = "generators"
    /\ UNCHANGED registry_vars
    /\ UNCHANGED <<events, stage, awaited, finished, completed, search_results,
                   candidates, combined>>
    /\ UNCHANGED call_vars

\* asyncio.gather returns after the last generator task ended: no candidate
\* raises ValueError, one candidate is returned, several go to the evaluator.
Gather ==
    /\ pipeline = "generate_drill"
    /\ pc = "generators"
    /\ \A g \in DOMAIN tasks : tasks[g].st = "done"
    /\ LET cs == FilterCandidates(GatherResults, 1)
       IN /\ candidates' = cs
          /\ completed' = Len(tasks)
          /\ IF NoCandidates(cs)
             THEN /\ returned' = Raises(Exc("ValueError",
                                            "All generators failed to produce candidates"))
                  /\ pc' = "raised"
                  /\ UNCHANGED stage
             ELSE IF SingleCandidate(cs)
             THEN /\ returned' = Returns(cs[1].drill)
                  /\ pc' = "done"
                  /\ UNCHANGED stage
             ELSE /\ stage' = [stage EXCEPT !["evaluator_agent"] = "in flight"]
                  /\ pc' = "evaluate"
                  /\ UNCHANGED returned
    /\ UNCHANGED registry_vars
    /\ UNCHANGED <<pipeline, events, awaited, tasks, finished, search_results,
                   combined>>
    /\ UNCHANGED scout_vars

\* Runner.run of the evaluator of generate_drill ends with outcome o; sel is
\* the candidate its evaluation selects. A run without final output fails on
\* `evaluation.selected_drill` (AttributeError); every exception leaves the
\* function.
EvaluateReturn(o, sel) ==
    /\ pipeline = "generate_drill"
    /\ pc = "evaluate"
    /\ sel \in DOMAIN candidates
    /\ o # "final_output" => sel = 1
    /\ stage' = [stage EXCEPT !["evaluator_agent"] = o]
    /\ IF o = "final_output"
       THEN /\ returned' = Returns(selected_drill(candidates, sel))
            /\ pc' = "done"
       ELSE /\ returned' = Raises(IF o = "None"
                                  THEN Exc("AttributeError",
                                           "'NoneType' object has no attribute 'selected_drill'")
                                  ELSE AgentRaises(o))
            /\ pc' = "raised"
    /\ UNCHANGED registry_vars
    /\ UNCHANGED <<pipeline, events, awaited, tasks, finished, completed,
                   search_results, candidates, combined>>
    /\ UNCHANGED scout_vars

----------------------------------------------------------------------------
\* api/drill.py: _generate_drill_stream_events, for a session that has its
\* company summary (no research phase): the consumer of generate_drill_stream.

\* The generator returned.
GeneratorReturned == [kind |-> "return", drill |-> [title |-> <<>>], exc |-> Exc("none", "")]

\* Variant: the cleanup follows the loop instead of standing in a finally
\* clause.
CleanupOnReturnOnly(e) == e.cls = "none"

\* try ... finally: task_registry.cleanup(session_id) runs on every exit of
\* the generator, with exception e (class "none": the loop ended).
CleanupOnExit(e) == TRUE

\* task_registry.cleanup(session_id), called by the endpoint's generator.
EndpointCleanup ==
    /\ active' = DictDel(active, SessionId)
    /\ cancel_requested' = [cancel_requested EXCEPT ![SessionId] =
                               IF @ = "never" THEN "never" ELSE "cleared"]
    /\ removed' = removed \cup Range(ListOf(active, SessionId))
    /\ ret' = Gave("cleanup", "None")
    /\ invoked' = Called(invoked, "task_registry.cleanup", "-")

\* The exit of _generate_drill_stream_events with exception e.
EndpointExit(e) ==
    /\ returned' = IF e.cls = "none" THEN GeneratorReturned ELSE Raises(e)
    /\ IF CleanupOnExit(e)
       THEN EndpointCleanup
       ELSE UNCHANGED <<active, cancel_requested, removed, ret, invoked>>

\* The consumer asks for the event after the last: generate_drill_stream
\* ends, the async for of the endpoint ends and the finally clause runs.
StreamEventsEnd ==
    /\ UNCHANGED <<guard, api>>
    /\ pipeline = "generate_drill_stream"
    /\ pc = "done"
    /\ returned.kind = "none"
    /\ EndpointExit(Exc("none", ""))
    /\ UNCHANGED <<is_complete, cancel_calls, created, results, task>>
    /\ UNCHANGED <<pipeline, pc, events, stage, awaited, tasks, finished, completed,
                   search_results, candidates, combined, run_status, scout, saved>>

\* The request is cancelled while generate_drill_stream awaits its tasks or
\* the evaluator (the client went away): CancelledError is raised there;
\* no except clause of it catches the exception, so it leaves the generator
\* and the endpoint's generator through the finally clause. The generator
\* tasks that are running are not cancelled.
StreamEventsCancelled ==
    /\ UNCHANGED <<guard, api>>
    /\ pipeline = "generate_drill_stream"
    /\ pc \in {"generators", "evaluate"}
    /\ returned.kind = "none"
    /\ pc' = "closed"
    /\ EndpointExit(Exc("CancelledError", ""))
    /\ UNCHANGED <<is_complete, cancel_calls, created, results, task>>
    /\ UNCHANGED <<pipeline, events, stage, awaited, tasks, finished, completed,
                   search_results, candidates, combined, run_status, scout, saved>>

----------------------------------------------------------------------------
\* One run of a pipeline, with the cancel endpoint beside it.

InitStream ==
    /\ active = <<>>
    /\ is_complete = [h \in StreamHandles |-> FALSE]
    /\ cancel_calls = [h \in StreamHandles |-> 0]
    /\ created = {}
    /\ cancel_requested = [id \in Ids |-> "never"]
    /\ results = [t \in Threads |-> <<>>]
    /\ removed = {}
    /\ ret = Gave("none", "None")
    /\ task = [t \in Threads |-> NoTask]
    /\ NoPipeline
    /\ guard = NoGuard
    /\ api = NoApi

NextStream ==
    \/ research_company_stream
    \/ \E o \in AgentOutcomes, n \in 0..MaxPlan : PlanEnd(o, n)
    \/ \E i \in 1..MaxPlan : SearchStart(i)
    \/ \E i \in 1..MaxPlan, o \in AgentOutcomes : SearchEnd(i, o)
    \/ TakeSearch
    \/ \E o \in AgentOutcomes : SummarizeEnd(o)
    \/ analyze_batch
    \/ \E o \in AgentOutcomes : AnalyzeBatchEnd(o)
    \/ generate_drill_stream
    \/ \E g \in 1..HOW_MANY_GENERATORS : GeneratorStart(g)
    \/ \E g \in 1..HOW_MANY_GENERATORS, o \in AgentOutcomes : GeneratorEnd(g, o)
    \/ TakeGenerator
    \/ \E o \in AgentOutcomes, sel \in 1..HOW_MANY_GENERATORS : EvaluateEnd(o, sel)
    \/ generate_drill
    \/ Gather
    \/ \E o \in AgentOutcomes, sel \in 1..HOW_MANY_GENERATORS : EvaluateReturn(o, sel)
    \/ StreamEventsEnd
    \/ StreamEventsCancelled
    \/ cancel_generation

SpecStream == InitStream /\ [][NextStream]_vars

\* The steps the event loop takes by itself once a stream has been started:
\* a task that was created runs, an agent call in flight ends (it returns,
\* raises or is cut off by the timeout of asyncio.wait_for), and a generator
\* whose await is ready resumes.
StreamProgress ==
    \/ \E o \in AgentOutcomes, n \in 0..MaxPlan : PlanEnd(o, n)
    \/ \E i \in 1..MaxPlan : SearchStart(i)
    \/ \E i \in 1..MaxPlan, o \in AgentOutcomes : SearchEnd(i, o)
    \/ TakeSearch
    \/ \E o \in AgentOutcomes : SummarizeEnd(o)
    \/ \E g \in 1..HOW_MANY_GENERATORS : GeneratorStart(g)
    \/ \E g \in 1..HOW_MANY_GENERATORS, o \in AgentOutcomes : GeneratorEnd(g, o)
    \/ TakeGenerator
    \/ \E o \in AgentOutcomes, sel \in 1..HOW_MANY_GENERATORS : EvaluateEnd(o, sel)

\* The streaming pipelines under an event loop that keeps running and agent
\* calls that all end. Requests, cancel requests and a client that goes away
\* may come or not.
SpecStreamLive == InitStream /\ [][NextStream]_vars /\ WF_vars(StreamProgress)

----------------------------------------------------------------------------
\* scout_orchestrator.py

\* Bounds of the scout runs: the repositories a search discovers, and the
\* settings scout_max_repos and scout_batch_size (50 and 10 by default).
MaxRepos == 4
scout_max_repos == 3
scout_batch_size == 2

\* The run id of the scout run: the key of its calls in the registry.
RunId == SessionId

\* What task_registry.is_cancelled(run_id) gives _check_cancelled: the class
\* TaskRegistry of task_registry.py defines no is_cancelled, so the call
\* raises AttributeError; the registry that test_scout_orchestrator.py
\* patches in answers True or False.
IsCancelledAnswers == {"False", "True", "AttributeError"}

\* _status(message, phase)
_status(message, phase) == [type |-> "status", message |-> message, phase |-> phase]

\* _cancelled_event()
_cancelled_event ==
    [type |-> "status", message |-> <<"Search cancelled">>, status |-> "cancelled"]

\* _error(message), without phase
_error(message) == [type |-> "error", message |-> message]

\* The exception of a call of the GitHub client that fails.
ClientError == Exc("RuntimeError", "text of the client's exception")

\* Variant: the check returns whatever is_cancelled answers.
CheckNeverRaises(a) ==
    IF a = "AttributeError"
    THEN Exc("AttributeError", "'TaskRegistry' object has no attribute 'is_cancelled'")
    ELSE Exc("none", "")

\* _check_cancelled(run_id) when is_cancelled answers a: the exception it
\* raises (class "none": it returns).
_check_cancelled(a) ==
    IF a = "True" THEN Exc("CancelledError", "")
    ELSE IF a = "AttributeError"
    THEN Exc("AttributeError", "'TaskRegistry' object has no attribute 'is_cancelled'")
    ELSE Exc("none", "")

\* Variant: every exception is recorded as a failure.
ScoutStatusFailed(e) == "failed"

\* The except clauses of scout_search_stream: the status recorded for
\* exception e.
ScoutStatus(e) == IF e.cls = "CancelledError" THEN "cancelled" ELSE "failed"

\* The except clauses of scout_search_stream: the event for exception e.
ScoutExceptEvent(e) ==
    IF e.cls = "CancelledError" THEN _cancelled_event
    ELSE [type |-> "error", message |-> <<"Scout search failed: ", e.msg>>]

\* min(a, b)
Min(a, b) == IF a <= b THEN a ELSE b

\* len(batch_repos(capped, bs)) for c repos
NumBatches(c) == (c + scout_batch_size - 1) \div scout_batch_size

\* The number of repos in batch i of c repos.
BatchSize(i, c) == Min(scout_batch_size, c - (i - 1) * scout_batch_size)

\* The state of the locals after the body of `for task in done` for task t,
\* and the event it yields: a result list extends all_results and counts its
\* entries; a timeout or another exception counts a whole batch, capped at
\* the total.
BatchTaken(t) ==
    LET o == tasks[t].out
        total == scout.capped
        n == IF o = "final_output" THEN BatchSize(t, total) ELSE 0
        capped_count == Min(scout.analyzed + scout_batch_size, total)
    IN IF o \in {"final_output", "None"}
       THEN [all_results |-> scout.all_results + n,
             analyzed |-> scout.analyzed + n,
             event |-> [type |-> "progress",
                        message |-> <<"Analyzed ", scout.analyzed + n, "/", total, " repos...">>,
                        phase |-> "analyzing"]]
       ELSE IF o = "TimeoutError"
       THEN [all_results |-> scout.all_results,
             analyzed |-> capped_count,
             event |-> [type |-> "error",
                        message |-> <<"Batch timed out (", capped_count, "/", total, ")">>,
                        phase |-> "analyzing"]]
       ELSE [all_results |-> scout.all_results,
             analyzed |-> capped_count,
             event |-> [type |-> "error",
                        message |-> <<"Batch failed (", capped_count, "/", total, ")">>,
                        phase |-> "analyzing"]]

\* `for task in pending: task.cancel()`: a task that has not ended gets the
\* cancellation, a task that has ended is left as it is.
CancelPending(ts, p) ==
    [i \in DOMAIN ts |->
        IF i \in p /\ ts[i].st \in {"created", "running"}
        THEN [ts[i] EXCEPT !.st = "cancelling"]
        ELSE ts[i]]

\* Variant: the finally clause does not wait for the cancelled tasks.
AwaitsPendingNever(p) == FALSE

\* `if pending: await asyncio.gather(*pending, return_exceptions=True)`
AwaitsPending(p) == p # {}

\* scout_search_stream up to its first await: the first status, then the
\* search of _discover.
scout_search_stream ==
    /\ UNCHANGED <<guard, api>>
    /\ pipeline = "none"
    /\ pipeline' = "scout_search_stream"
    /\ events' = <<_status(<<"Searching GitHub...">>, "discovering")>>
    /\ invoked' = Called(invoked, "_discover", "-")
    /\ pc' = "discover"
    /\ UNCHANGED registry_vars
    /\ UNCHANGED <<stage, awaited, tasks, finished, completed, search_results,
                   candidates, combined, returned, run_status, scout, saved>>

\* _discover raises: the last except clause records "failed" and yields the
\* error event.
DiscoverFails ==
    /\ UNCHANGED <<guard, api>>
    /\ pipeline = "scout_search_stream"
    /\ pc = "discover"
    /\ run_status' = ScoutStatus(ClientError)
    /\ events' = Append(events, ScoutExceptEvent(ClientError))
    /\ pc' = "done"
    /\ UNCHANGED registry_vars
    /\ UNCHANGED <<pipeline, stage, awaited, tasks, finished, completed, search_results,
                   candidates, combined, returned, scout, invoked, saved>>

\* _discover returns n repos: the "Discovered" status.
DiscoverEnd(n) ==
    /\ UNCHANGED <<guard, api>>
    /\ pipeline = "scout_search_stream"
    /\ pc = "discover"
    /\ scout' = [scout EXCEPT !.repos = n]
    /\ events' = Append(events, _status(<<"Discovered ", n, " repositories">>, "discovering"))
    /\ pc' = "discovered"
    /\ UNCHANGED registry_vars
    /\ UNCHANGED <<pipeline, stage, awaited, tasks, finished, completed, search_results,
                   candidates, combined, returned, run_status, invoked, saved>>

\* From the "Discovered" status to the "passed filters" status: the end for
\* no repos; else the cancellation check (is_cancelled answers a), then
\* _filter_repos, which lets f repos pass.
AfterDiscovery(a, f) ==
    /\ UNCHANGED <<guard, api>>
    /\ pipeline = "scout_search_stream"
    /\ pc = "discovered"
    /\ f \in 0..scout.repos
    /\ IF scout.repos = 0
       THEN /\ a = "False"
            /\ events' = Append(events,
                             _error(<<"No repositories found. Try broadening your filters.">>))
            /\ run_status' = "completed"
            /\ pc' = "done"
            /\ UNCHANGED <<scout, invoked>>
       ELSE IF _check_cancelled(a).cls # "none"
       THEN /\ f = 0
            /\ invoked' = Called(invoked, "_check_cancelled", a)
            /\ run_status' = ScoutStatus(_check_cancelled(a))
            /\ events' = Append(events, ScoutExceptEvent(_check_cancelled(a)))
            /\ pc' = "done"
            /\ UNCHANGED scout
       ELSE /\ invoked' = Called(Called(invoked, "_check_cancelled", a), "_filter_repos", "-")
            /\ scout' = [scout EXCEPT !.filtered = f, !.capped = Min(f, scout_max_repos)]
            /\ events' = events \o
                  << _status(<<"Filtering candidates...">>, "filtering"),
                     _status(<<f, " repos passed filters">>, "filtering") >>
            /\ pc' = "filtered"
            /\ UNCHANGED run_status
    /\ UNCHANGED registry_vars
    /\ UNCHANGED <<pipeline, stage, awaited, tasks, finished, completed, search_results,
                   candidates, combined, returned, saved>>

\* From the "passed filters" status to the await of _fetch_readmes: the end
\* when nothing passed; else the cancellation check, then the README fetch.
AfterFiltering(a) ==
    /\ UNCHANGED <<guard, api>>
    /\ pipeline = "scout_search_stream"
    /\ pc = "filtered"
    /\ IF scout.filtered = 0
       THEN /\ a = "False"
            /\ events' = Append(events,
                             _error(<<"All repos filtered out. Try adjusting your filters.">>))
            /\ run_status' = "completed"
            /\ pc' = "done"
            /\ UNCHANGED invoked
       ELSE IF _check_cancelled(a).cls # "none"
       THEN /\ invoked' = Called(invoked, "_check_cancelled", a)
            /\ run_status' = ScoutStatus(_check_cancelled(a))
            /\ events' = Append(events, ScoutExceptEvent(_check_cancelled(a)))
            /\ pc' = "done"
       ELSE /\ invoked' = Called(Called(invoked, "_check_cancelled", a), "_fetch_readmes", "-")
            /\ events' = Append(events,
                             _status(<<"Fetching READMEs for ", scout.capped, " repos...">>,
                                     "filtering"))
            /\ pc' = "fetch"
            /\ UNCHANGED run_status
    /\ UNCHANGED registry_vars
    /\ UNCHANGED <<pipeline, stage, awaited, tasks, finished, completed, search_results,
                   candidates, combined, returned, scout, saved>>

\* _fetch_readmes raises.
FetchFails ==
    /\ UNCHANGED <<guard, api>>
    /\ pipeline = "scout_search_stream"
    /\ pc = "fetch"
    /\ run_status' = ScoutStatus(ClientError)
    /\ events' = Append(events, ScoutExceptEvent(ClientError))
    /\ pc' = "done"
    /\ UNCHANGED registry_vars
    /\ UNCHANGED <<pipeline, stage, awaited, tasks, finished, completed, search_results,
                   candidates, combined, returned, scout, invoked, saved>>

\* _fetch_readmes returns: the cancellation check, then the "Starting AI
\* analysis" status.
FetchEnd(a) ==
    /\ UNCHANGED <<guard, api>>
    /\ pipeline = "scout_search_stream"
    /\ pc = "fetch"
    /\ invoked' = Called(invoked, "_check_cancelled", a)
    /\ IF _check_cancelled(a).cls # "none"
       THEN /\ run_status' = ScoutStatus(_check_cancelled(a))
            /\ events' = Append(events, ScoutExceptEvent(_check_cancelled(a)))
            /\ pc' = "done"
       ELSE /\ events' = Append(events, _status(<<"Starting AI analysis...">>, "analyzing"))
            /\ pc' = "start_analysis"
            /\ UNCHANGED run_status
    /\ UNCHANGED registry_vars
    /\ UNCHANGED <<pipeline, stage, awaited, tasks, finished, completed, search_results,
                   candidates, combined, returned, scout, saved>>

\* The exit of _run_analysis's loop by exception e (log: the history with
\* the check that raised): the finally clause cancels the pending tasks and
\* waits for them; with nothing to wait for, e reaches the except clauses of
\* scout_search_stream at once.
LoopRaises(e, log, ts, p) ==
    /\ invoked' = log
    /\ tasks' = CancelPending(ts, p)
    /\ returned' = Raises(e)
    /\ IF AwaitsPending(p)
       THEN /\ pc' = "gather"
            /\ UNCHANGED <<events, run_status>>
       ELSE /\ run_status' = ScoutStatus(e)
            /\ events' = Append(events, ScoutExceptEvent(e))
            /\ pc' = "done"

\* The first step of _run_analysis: one task per batch, then the first turn
\* of `while pending`: the cancellation check and the await of asyncio.wait.
StartAnalysis(a) ==
    /\ UNCHANGED <<guard, api>>
    /\ pipeline = "scout_search_stream"
    /\ pc = "start_analysis"
    /\ LET ts == [i \in 1..NumBatches(scout.capped) |-> NewTask]
           log == Called(Called(invoked, "_run_analysis", "-"), "_check_cancelled", a)
       IN /\ scout' = [scout EXCEPT !.pending = DOMAIN ts, !.done = {}]
          /\ IF _check_cancelled(a).cls # "none"
             THEN LoopRaises(_check_cancelled(a), log, ts, DOMAIN ts)
             ELSE /\ tasks' = ts
                  /\ invoked' = Called(log, "asyncio.wait", "-")
                  /\ pc' = "wait"
                  /\ UNCHANGED <<events, run_status, returned>>
    /\ UNCHANGED registry_vars
    /\ UNCHANGED <<pipeline, stage, awaited, finished, completed, search_results,
                   candidates, combined, saved>>

\* A batch task runs for the first time: analyze_batch up to the await in
\* run_agent_streamed. The loop starts tasks in the order of creation.
BatchStart(i) ==
    /\ UNCHANGED <<guard, api>>
    /\ pipeline = "scout_search_stream"
    /\ i \in DOMAIN tasks
    /\ tasks[i].st = "created"
    /\ \A j \in DOMAIN tasks : j < i => tasks[j].st # "created"
    /\ StartCall(NewHandle)
    /\ tasks' = [tasks EXCEPT ![i] = [st |-> "running", h |-> NewHandle, out |-> "none"]]
    /\ invoked' = Called(invoked, "analyze_batch", "-")
    /\ UNCHANGED <<is_complete, cancel_calls, cancel_requested, removed, results, ret, task>>
    /\ UNCHANGED <<pipeline, pc, events, stage, awaited, finished, completed,
                   search_results, candidates, combined, returned, run_status, scout, saved>>

\* The agent call of batch i ends with outcome o: run_agent_streamed's except
\* and finally clauses, then analyze_batch returns or raises and the task is
\* done.
BatchEnd(i, o) ==
    /\ pipeline = "scout_search_stream"
    /\ i \in DOMAIN tasks
    /\ tasks[i].st = "running"
    /\ EndCall(tasks[i].h, o)
    /\ ret' = Gave("analyze_batch",
                   IF o \in {"final_output", "None"} THEN BatchResults(o) ELSE Propagated(o))
    /\ tasks' = [tasks EXCEPT ![i] = [st |-> "done", h |-> @.h, out |-> o]]
    /\ finished' = Append(finished, i)
    /\ UNCHANGED <<is_complete, created, cancel_requested, results, task>>
    /\ UNCHANGED <<pipeline, pc, events, stage, awaited, completed,
                   search_results, candidates, combined>>
    /\ UNCHANGED call_vars

\* A cancelled batch task gets its CancelledError: never started, it ends at
\* once; awaiting in run_agent_streamed, the finally clause unregisters its
\* handle on the way out.
BatchCancelled(i) ==
    /\ pipeline = "scout_search_stream"
    /\ i \in DOMAIN tasks
    /\ tasks[i].st = "cancelling"
    /\ tasks' = [tasks EXCEPT ![i] = [@ EXCEPT !.st = "cancelled"]]
    /\ IF tasks[i].h # NoHandle
       THEN /\ active' = RemoveResult(active, RunId, tasks[i].h)
            /\ removed' = removed \cup (Range(ListOf(active, RunId)) \cap {tasks[i].h})
       ELSE UNCHANGED <<active, removed>>
    /\ UNCHANGED <<is_complete, cancel_calls, created, cancel_requested, results, ret, task>>
    /\ UNCHANGED <<pipeline, pc, events, stage, awaited, finished, completed,
                   search_results, candidates, combined>>
    /\ UNCHANGED call_vars

\* asyncio.wait returns: done holds every pending task that has ended,
\* pending the others; the body of `for task in done` runs for a first task
\* t, up to its yield.
WaitReturns(t) ==
    /\ UNCHANGED <<guard, api>>
    /\ pipeline = "scout_search_stream"
    /\ pc = "wait"
    /\ \A i \in DOMAIN tasks : tasks[i].st # "created"
    /\ LET ended == {i \in scout.pending : tasks[i].st = "done"}
       IN /\ t \in ended
          /\ scout' = [scout EXCEPT !.pending = @ \ ended,
                                    !.done = ended \ {t},
                                    !.all_results = BatchTaken(t).all_results,
                                    !.analyzed = BatchTaken(t).analyzed]
          /\ events' = Append(events, BatchTaken(t).event)
    /\ pc' = "yielded"
    /\ UNCHANGED registry_vars
    /\ UNCHANGED <<pipeline, stage, awaited, tasks, finished, completed, search_results,
                   candidates, combined, returned, run_status, invoked, saved>>

\* Variant: the status compares the progress counter with the capped repos.
CompletionStatusByCounter ==
    IF scout.analyzed < scout.capped THEN "partial" ELSE "completed"

\* _build_completion_event: the results are saved, the status is "partial"
\* when fewer results than capped repos were collected, and the complete
\* event carries the counts.
CompletionStatus == IF scout.all_results < scout.capped THEN "partial" ELSE "completed"

\* The generator goes on after a yield of the loop body: the body for the
\* next task t of done; after the last, `while pending`: with no task
\* pending the loop ends and scout_search_stream saves the results and yields
\* the complete event; else the cancellation check and the next
\* asyncio.wait.
Resume(a, t) ==
    /\ UNCHANGED <<guard, api>>
    /\ pipeline = "scout_search_stream"
    /\ pc = "yielded"
    /\ IF scout.done # {}
       THEN /\ a = "False"
            /\ t \in scout.done
            /\ scout' = [scout EXCEPT !.done = @ \ {t},
                                      !.all_results = BatchTaken(t).all_results,
                                      !.analyzed = BatchTaken(t).analyzed]
            /\ events' = Append(events, BatchTaken(t).event)
            /\ UNCHANGED <<pc, tasks, returned, run_status, invoked, saved>>
       ELSE IF scout.pending = {}
       THEN /\ a = "False"
            /\ t = 1
            /\ invoked' = Called(invoked, "_build_completion_event", "-")
            /\ saved' = <<scout.all_results>>
            /\ run_status' = CompletionStatus
            /\ events' = Append(events,
                             [type |-> "complete",
                              data |-> [status |-> CompletionStatus,
                                        total_discovered |-> scout.repos,
                                        total_filtered |-> scout.filtered,
                                        total_analyzed |-> scout.all_results]])
            /\ pc' = "done"
            /\ UNCHANGED <<scout, tasks, returned>>
       ELSE /\ t = 1
            /\ UNCHANGED <<scout, saved>>
            /\ IF _check_cancelled(a).cls # "none"
               THEN LoopRaises(_check_cancelled(a), Called(invoked, "_check_cancelled", a),
                               tasks, scout.pending)
               ELSE /\ invoked' = Called(Called(invoked, "_check_cancelled", a),
                                         "asyncio.wait", "-")
                    /\ pc' = "wait"
                    /\ UNCHANGED <<events, tasks, returned, run_status>>
    /\ UNCHANGED registry_vars
    /\ UNCHANGED <<pipeline, stage, awaited, finished, completed, search_results,
                   candidates, combined>>

\* asyncio.gather of the finally clause returns, every pending task having
\* ended: the exception leaves _run_analysis and reaches the except clauses
\* of scout_search_stream.
GatherEnd ==
    /\ UNCHANGED <<guard, api>>
    /\ pipeline = "scout_search_stream"
    /\ pc = "gather"
    /\ \A i \in scout.pending : tasks[i].st \in {"cancelled", "done"}
    /\ run_status' = ScoutStatus(returned.exc)
    /\ events' = Append(events, ScoutExceptEvent(returned.exc))
    /\ pc' = "done"
    /\ UNCHANGED registry_vars
    /\ UNCHANGED <<pipeline, stage, awaited, tasks, finished, completed, search_results,
                   candidates, combined, returned, scout, invoked, saved>>

\* api/scout.py cancel_search for a run whose row exists: cancel_all(run_id)
\* cancels the agent calls of the batches in flight, the marker of the run
\* is popped from _active_searches, then update_search_run records
\* "cancelled" with zero counts (run_status is the status of the run RunId).
\* Its two awaits are calls of the database; the steps between them are
\* taken as one.
cancel_search(run_id) ==
    /\ active' = DictDel(active, run_id)
    /\ cancel_calls' = CancelEach(cancel_calls, ListOf(active, run_id))
    /\ cancel_requested' = [cancel_requested EXCEPT ![run_id] = "marked"]
    /\ removed' = removed \cup Range(ListOf(active, run_id))
    /\ ret' = Gave("cancel_search", "cancelled")
    /\ api' = [api EXCEPT !._active_searches = @ \ {run_id}]
    /\ run_status' = IF run_id = RunId THEN "cancelled" ELSE run_status
    /\ UNCHANGED <<is_complete, created, results, task>>
    /\ UNCHANGED <<pipeline, pc, events, stage, awaited, tasks, finished, completed,
                   search_results, candidates, combined, returned, scout, invoked, saved,
                   guard>>

\* One run of scout_search_stream, with the cancel endpoint beside it.
NextScout ==
    \/ scout_search_stream
    \/ DiscoverFails
    \/ \E n \in 0..MaxRepos : DiscoverEnd(n)
    \/ \E a \in IsCancelledAnswers, f \in 0..MaxRepos : AfterDiscovery(a, f)
    \/ \E a \in IsCancelledAnswers : AfterFiltering(a)
    \/ FetchFails
    \/ \E a \in IsCancelledAnswers : FetchEnd(a)
    \/ \E a \in IsCancelledAnswers : StartAnalysis(a)
    \/ \E i \in 1..MaxRepos : BatchStart(i)
    \/ \E i \in 1..MaxRepos, o \in AgentOutcomes : BatchEnd(i, o)
    \/ \E i \in 1..MaxRepos : BatchCancelled(i)
    \/ \E t \in 1..MaxRepos : WaitReturns(t)
    \/ \E a \in IsCancelledAnswers, t \in 1..MaxRepos : Resume(a, t)
    \/ GatherEnd
    \/ cancel_search(RunId)

SpecScout == InitStream /\ [][NextScout]_vars

----------------------------------------------------------------------------
\* api/scout.py: the search endpoints and _active_searches. A request runs
\* from one await to the next as one step; every await of these handlers is
\* a call of the database, at which another request may run.

\* Everything but the state of the scout API.
not_api == <<active, is_complete, cancel_calls, created, cancel_requested,
             removed, results, ret, task, pipeline, pc, events, stage, awaited,
             tasks, finished, completed, search_results, candidates, combined,
             returned, run_status, scout, invoked, saved, guard>>

\* The request r is at the await `at` of the handler `kind`.
At(r, kind, at) ==
    /\ api.request[r].kind = kind
    /\ api.request[r].at = at

\* The request r is answered.
Respond(a, r, response) ==
    [a EXCEPT !.request[r].at = "done", !.request[r].response = response]

\* The request r goes on to its next await.
Await(a, r, at) == [a EXCEPT !.request[r].at = at]

\* Variant of StreamIsActive: the run already has a stream only when its row
\* is missing.
StreamIsActiveNever(run_id) == FALSE

\* _validate_stream_request: `run_id in _active_searches`.
StreamIsActive(run_id) == run_id \in api._active_searches

\* _check_rate_limit: the error message, or None. All requests come from one
\* address within the window, so the list of the address is as long as the
\* number of the searches started.
_check_rate_limit ==
    IF api._active_searches # {}
    THEN "A search is already running"
    ELSE IF api._ip_search_counts >= SEARCH_RATE_LIMIT
    THEN "Rate limit exceeded"
    ELSE "None"

\* uuid of create_search_run: an id no run has.
NewRunId == CHOOSE id \in Ids : id \notin api.runs

\* start_search up to its first await: 429 when _check_rate_limit gives an
\* error, else `await get_profile()`. The model follows the requests made
\* while the database can still give a run a new id of Ids.
start_search(r) ==
    /\ At(r, "none", "idle")
    /\ api.runs # Ids
    /\ api' =
          IF _check_rate_limit # "None"
          THEN Respond([api EXCEPT !.request[r].kind = "start_search"], r, "429")
          ELSE [api EXCEPT !.request[r].kind = "start_search",
                           !.request[r].at = "get_profile"]
    /\ UNCHANGED not_api

\* start_search after get_profile: 400 without a profile, else
\* `await create_search_run(filters)`.
StartSearchProfile(r, profile_resp) ==
    /\ At(r, "start_search", "get_profile")
    /\ api' = IF profile_resp
              THEN Await(api, r, "create_search_run")
              ELSE Respond(api, r, "400")
    /\ UNCHANGED not_api

\* start_search after create_search_run: the row of the run exists, the time
\* is appended to the list of the address, the run id is returned. The
\* marker of the run is not set here.
StartSearchCreated(r) ==
    /\ At(r, "start_search", "create_search_run")
    /\ api.runs # Ids
    /\ api' = Respond([api EXCEPT !.runs = @ \cup {NewRunId},
                                  !._ip_search_counts = @ + 1,
                                  !.request[r].run = NewRunId], r, "201 running")
    /\ UNCHANGED not_api

\* stream_search up to the first await of _validate_stream_request:
\* `await get_search_run(run_id)`.
stream_search(r, run_id) ==
    /\ At(r, "none", "idle")
    /\ api' = [api EXCEPT !.request[r].kind = "stream_search",
                          !.request[r].run = run_id,
                          !.request[r].at = "get_search_run"]
    /\ UNCHANGED not_api

\* _validate_stream_request after get_search_run: the two checks, then
\* `await get_profile()`.
_validate_stream_request(r) ==
    /\ At(r, "stream_search", "get_search_run")
    /\ api' = IF api.request[r].run \notin api.runs
              THEN Respond(api, r, "Search run not found")
              ELSE IF StreamIsActive(api.request[r].run)
              THEN Respond(api, r, "Search already in progress")
              ELSE Await(api, r, "get_profile")
    /\ UNCHANGED not_api

\* _validate_stream_request after get_profile:
\* `await get_search_run_filters(run_id)`.
ValidateProfile(r) ==
    /\ At(r, "stream_search", "get_profile")
    /\ api' = Await(api, r, "get_search_run_filters")
    /\ UNCHANGED not_api

\* _validate_stream_request returns and stream_search ends: an error without
\* profile or filters, else the marker of the run is set and the response
\* streams _stream_scout_events.
StreamStarts(r, found) ==
    /\ At(r, "stream_search", "get_search_run_filters")
    /\ api' = IF found
              THEN Respond([api EXCEPT !._active_searches = @ \cup {api.request[r].run},
                                       !.streams[api.request[r].run] = @ + 1],
                           r, "stream")
              ELSE Respond(api, r, "Profile or filters not found")
    /\ UNCHANGED not_api

\* _stream_scout_events of a run ends (its pipeline ended or the client went
\* away): the finally clause pops the marker of the run and cleans the
\* registry up.
StreamScoutEventsEnd(run_id) ==
    /\ api.streams[run_id] > 0
    /\ api' = [api EXCEPT !._active_searches = @ \ {run_id},
                          !.streams[run_id] = @ - 1]
    /\ active' = DictDel(active, run_id)
    /\ cancel_requested' = [cancel_requested EXCEPT ![run_id] =
                               IF @ = "never" THEN "never" ELSE "cleared"]
    /\ removed' = removed \cup Range(ListOf(active, run_id))
    /\ ret' = Gave("cleanup", "None")
    /\ UNCHANGED <<is_complete, cancel_calls, created, results, task>>
    /\ UNCHANGED <<pipeline, pc, events, stage, awaited, tasks, finished, completed,
                   search_results, candidates, combined, returned, run_status, scout,
                   invoked, saved, guard>>

\* The requests of the scout API, interleaved at their awaits.
NextApi ==
    \/ \E r \in Requests : start_search(r)
    \/ \E r \in Requests, profile_resp \in BOOLEAN : StartSearchProfile(r, profile_resp)
    \/ \E r \in Requests : StartSearchCreated(r)
    \/ \E r \in Requests, run_id \in Ids : stream_search(r, run_id)
    \/ \E r \in Requests : _validate_stream_request(r)
    \/ \E r \in Requests : ValidateProfile(r)
    \/ \E r \in Requests, found \in BOOLEAN : StreamStarts(r, found)
    \/ \E run_id \in Ids : StreamScoutEventsEnd(run_id)
    \/ \E run_id \in api.runs : cancel_search(run_id)

SpecApi == InitStream /\ [][NextApi]_vars

----------------------------------------------------------------------------
\* agents/guardrails: injection_guardrail, leakage_guardrail and patterns.py

\* Bound: the length of the pattern list (24 injection patterns and 14
\* leakage patterns in patterns.py).
NumPatterns == 3

\* The two guardrail functions. They differ in their pattern list, their
\* heuristic (_seems_suspicious, _might_contain_secrets), their classifier
\* agent and the names of the keys of output_info.
Guardrail_functions == {"injection_guardrail", "leakage_guardrail"}

\* What the classifier agent's run gives for the text: a detection that
\* reports a violation, one that reports none, or an exception of Runner.run.
Verdicts == {"violation", "clean", "raises"}

\* The calls of a guardrail function: its text is given by the set of the
\* patterns of the list that find a match in it, by what the heuristic says
\* about it and by what the classifier would answer.
GuardCalls ==
    { [NoGuard EXCEPT !.fn = f, !.matches = m, !.gate = g, !.verdict = v, !.at = "called"] :
        f \in Guardrail_functions, m \in SUBSET (1..NumPatterns), g \in BOOLEAN,
        v \in Verdicts }

\* Variant: the loop keeps the last pattern that matches.
LastMatchFrom(i, m) ==
    IF m = {} THEN 0 ELSE CHOOSE j \in m : \A k \in m : k <= j

\* `for i, pattern in enumerate(...)`: from index i on, the index of the
\* first pattern that finds a match (0: none does).
RECURSIVE FirstMatchFrom(_, _)
FirstMatchFrom(i, m) ==
    IF i > NumPatterns THEN 0
    ELSE IF i \in m THEN i
    ELSE FirstMatchFrom(i + 1, m)

\* check_injection_patterns(text), check_leakage_patterns(text): the tuple
\* (found, matched pattern), with 0 for None.
check_patterns(m) ==
    LET i == FirstMatchFrom(1, m) IN [found |-> i # 0, pattern |-> i]

\* The pattern a detection of the classifier names.
ClassifierPattern == NumPatterns + 1

\* The guardrail function up to its return or its await: the pattern check;
\* with no match, the heuristic; with a text the heuristic flags, the call
\* of Runner.run on the classifier agent.
GuardCheck ==
    /\ guard.at = "called"
    /\ guard' =
          IF check_patterns(guard.matches).found
          THEN [guard EXCEPT !.at = "returned",
                             !.tripwire_triggered = TRUE,
                             !.reasoning = "Matched known pattern",
                             !.matched_pattern = check_patterns(guard.matches).pattern]
          ELSE IF guard.gate
          THEN [guard EXCEPT !.at = "classifier", !.classifier_calls = @ + 1]
          ELSE [guard EXCEPT !.at = "returned",
                             !.tripwire_triggered = FALSE,
                             !.reasoning = "appears safe"]
    /\ UNCHANGED registry_vars
    /\ UNCHANGED <<pipeline, pc, events, stage, awaited, tasks, finished, completed,
                   search_results, candidates, combined, returned, run_status, scout,
                   invoked, saved, api>>

\* Runner.run of the classifier agent ends: a detection that reports a
\* violation sets the tripwire with the detection's reasoning, another
\* detection falls through to the safe result, an exception leaves the
\* guardrail function.
ClassifierEnd ==
    /\ guard.at = "classifier"
    /\ guard' =
          IF guard.verdict = "raises"
          THEN [guard EXCEPT !.at = "raised"]
          ELSE IF guard.verdict = "violation"
          THEN [guard EXCEPT !.at = "returned",
                             !.tripwire_triggered = TRUE,
                             !.reasoning = "detection.reasoning",
                             !.matched_pattern = ClassifierPattern]
          ELSE [guard EXCEPT !.at = "returned",
                             !.tripwire_triggered = FALSE,
                             !.reasoning = "appears safe"]
    /\ UNCHANGED registry_vars
    /\ UNCHANGED <<pipeline, pc, events, stage, awaited, tasks, finished, completed,
                   search_results, candidates, combined, returned, run_status, scout,
                   invoked, saved, api>>

\* One call of a guardrail function on every kind of text.
InitGuard ==
    /\ active = <<>>
    /\ is_complete = [h \in StreamHandles |-> FALSE]
    /\ cancel_calls = [h \in StreamHandles |-> 0]
    /\ created = {}
    /\ cancel_requested = [id \in Ids |-> "never"]
    /\ results = [t \in Threads |-> <<>>]
    /\ removed = {}
    /\ ret = Gave("none", "None")
    /\ task = [t \in Threads |-> NoTask]
    /\ NoPipeline
    /\ guard \in GuardCalls
    /\ api = NoApi

NextGuard ==
    \/ GuardCheck
    \/ ClassifierEnd

SpecGuard == InitGuard /\ [][NextGuard]_vars

----------------------------------------------------------------------------
\* Properties of the pipelines (checked under SpecStream).

\* The types of the events that end a stream.
Terminal(e) == e.type \in {"complete", "error"}

\* Some event of the stream has type ty.
Emitted(ty) == \E k \in DOMAIN events : events[k].type = ty

\* The last event of the stream has type ty.
LastIs(ty) == events # <<>> /\ events[Len(events)].type = ty

\* The run is research_company_stream.
Research == pipeline = "research_company_stream"

\* The run is generate_drill_stream.
Drill == pipeline = "generate_drill_stream"

\* The generator has ended: it returned after its last event, or an
\* exception left it.
Ended == pc \in {"done", "raised"}

\* C11: an agent call that ends with no output makes run_agent_streamed return
\* None, not raise. A search without output is taken as a failed entry: its
\* status is the "Failed" progress message, it adds no result, and the
\* searches after it are still taken (the summarizing stage follows when
\* another search succeeded). A scout batch without output returns the empty
\* list. After a planning or summarizing call without output the stream
\* never holds a complete event and ends with an error event.
C11_NoneIsNoResult ==
    /\ [][/\ \A i \in 1..MaxPlan :
                SearchEnd(i, "None") => ret' = Gave("run_agent_streamed", "None")
          /\ PlanEnd("None", 0) => ret' = Gave("run_agent_streamed", "None")
          /\ SummarizeEnd("None") => ret' = Gave("run_agent_streamed", "None")
          /\ AnalyzeBatchEnd("None") => ret' = Gave("analyze_batch", "[]")
          /\ (TakeSearch /\ tasks[NextFinished].out = "None") =>
                /\ completed' = completed + 1
                /\ search_results' = search_results
                /\ events'[Len(events) + 1] =
                      StatusEvent(<<"Failed (", completed + 1, "/", Len(tasks), "): ",
                                    NextFinished, ", continuing...">>)
                /\ (completed + 1 < Len(tasks) => pc' = "searches")
                /\ (completed + 1 = Len(tasks) /\ search_results # <<>> =>
                      pc' = "summarize")]_vars
    /\ [](\A a \in {"planner_agent", "summarizer_agent"} :
             stage[a] = "None" =>
                 /\ ~Emitted("complete")
                 /\ pc = "done"
                 /\ LastIs("error"))

\* A search without output was taken first as a failed entry, the other
\* search succeeded after it, and the stream ended with the complete event.
C11_Witness ==
    /\ Research
    /\ pc = "done"
    /\ Len(finished) = 2
    /\ tasks[finished[1]].out = "None"
    /\ tasks[finished[2]].out = "final_output"
    /\ LastIs("complete")

\* The agent calls that have started and not finished: their handles
\* (NoHandle for a call that has none).
InFlightCalls ==
    {tasks[i].h : i \in {j \in DOMAIN tasks : tasks[j].st = "running"}}
        \cup (IF \E a \in Agents : stage[a] = "in flight" THEN {awaited} ELSE {})
        \cup (IF pc = "analyze" THEN {awaited} ELSE {})

\* C12: every agent call of a pipeline is registered under the session id
\* while it is in flight, so a cancel_all(session_id) at any moment leaves
\* every call that has started and not finished with a cancelled handle.
C12_EveryAgentCallCancellable ==
    [][cancel_generation =>
          \A h \in InFlightCalls : h # NoHandle /\ cancel_calls'[h] >= 1]_vars

\* C13: in every run of research_company_stream and generate_drill_stream a
\* terminal event (complete or error) is the last event of the stream: there
\* is at most one, never a complete and an error, and no status or candidate
\* event after it; a stream that has not ended holds no terminal event.
C13_OneTerminalEventLast ==
    /\ \A k \in DOMAIN events : Terminal(events[k]) => k = Len(events)
    /\ (Emitted("complete") \/ Emitted("error")) => Ended
    /\ ~(Emitted("complete") /\ Emitted("error"))

\* A drill stream has ended with candidate and status events before its one
\* complete event.
C13_Witness ==
    /\ Drill
    /\ pc = "done"
    /\ LastIs("complete")
    /\ Len(candidates) = 2
    /\ Emitted("candidate")
    /\ Cardinality({k \in DOMAIN events : Terminal(events[k])}) = 1

\* The planner returned a plan.
PlanReturned == stage["planner_agent"] = "final_output"

\* Every search task of the plan has ended, each with an outcome in S.
EverySearchIn(S) ==
    \A i \in DOMAIN tasks : tasks[i].st = "done" /\ tasks[i].out \in S

\* The outcomes of a search that failed or timed out: no output, an exception
\* that is no tripwire, the timeout.
FailOutcomes == {"None", "RuntimeError", "TimeoutError"}

\* How many events of type ty the stream holds.
Count(ty) == Cardinality({k \in DOMAIN events : events[k].type = ty})

\* The statement of C14 as it is worded: a run with a non-empty plan whose
\* searches all succeeded ends with exactly one complete event as its last
\* event and without error event.
C14_AllSucceedThenComplete ==
    (Research /\ Ended /\ PlanReturned /\ Len(tasks) >= 1
        /\ EverySearchIn({"final_output"})) =>
        /\ LastIs("complete")
        /\ Count("complete") = 1
        /\ Count("error") = 0

\* C14: for every non-empty plan whose searches all succeed, the stream
\* reaches the summarizing stage with all results and without error event;
\* when the summarizing call returns a summary it ends with exactly one
\* complete event as its last event and without error event.
C14_AllSucceedAndSummarizedThenComplete ==
    (Research /\ PlanReturned /\ Len(tasks) >= 1 /\ EverySearchIn({"final_output"})
        /\ completed = Len(tasks)) =>
        /\ stage["summarizer_agent"] # "not invoked"
        /\ Len(search_results) = Len(tasks)
        /\ (~Ended => Count("error") = 0 /\ Count("complete") = 0)
        /\ (Ended /\ stage["summarizer_agent"] = "final_output" =>
               /\ LastIs("complete")
               /\ Count("complete") = 1
               /\ Count("error") = 0)

\* A run with a plan of two searches that both succeeded has ended with the
\* complete event.
C14_Witness ==
    /\ Research
    /\ pc = "done"
    /\ Len(tasks) = 2
    /\ EverySearchIn({"final_output"})
    /\ LastIs("complete")

\* Some but not all searches of the plan failed or timed out, the others
\* succeeded.
SomeButNotAllFailed ==
    /\ EverySearchIn(FailOutcomes \cup {"final_output"})
    /\ \E i \in DOMAIN tasks : tasks[i].out \in FailOutcomes
    /\ \E i \in DOMAIN tasks : tasks[i].out = "final_output"

\* The statement of C15 as it is worded: a run in which at least one but not
\* all searches failed or timed out ends with the complete event, with at
\* least as many status events as plan entries.
C15_PartialFailureStillCompletes ==
    (Research /\ Ended /\ PlanReturned /\ SomeButNotAllFailed) =>
        /\ LastIs("complete")
        /\ Count("status") >= Len(tasks)

\* C15: when at least one but not all searches fail or time out, every plan
\* entry is still taken (none aborts the others), the summarizing agent is
\* called, and the stream holds at least as many status events as plan
\* entries; when the summarizing call returns a summary the stream ends with
\* the complete event and without error event.
C15_PartialFailureDegrades ==
    (Research /\ PlanReturned /\ SomeButNotAllFailed /\ Ended) =>
        /\ completed = Len(tasks)
        /\ stage["summarizer_agent"] \notin {"not invoked", "in flight"}
        /\ Count("status") >= Len(tasks)
        /\ (stage["summarizer_agent"] = "final_output" =>
               LastIs("complete") /\ Count("error") = 0)

\* A run in which the first search to end timed out and the second succeeded
\* has ended with the complete event.
C15_Witness ==
    /\ Research
    /\ pc = "done"
    /\ Len(finished) = 2
    /\ tasks[finished[1]].out = "TimeoutError"
    /\ tasks[finished[2]].out = "final_output"
    /\ LastIs("complete")
    /\ Count("status") = 5

\* The message holds the word "failed": its first piece is one of the
\* literals of the two generators that do.
ContainsFailed(m) ==
    m[1] \in {"All searches failed. Please try again.", "Research failed: ",
              "All generators failed. Please try again.", "Drill generation failed: "}

\* C16: when no search entry succeeded (every entry failed or timed out, or
\* the plan is empty) the summarizing agent is never called, and the stream
\* ends with an error event whose message holds "failed" and without
\* complete event.
C16_NoSuccessThenError ==
    (Research /\ PlanReturned /\ EverySearchIn(FailOutcomes)) =>
        /\ stage["summarizer_agent"] = "not invoked"
        /\ ~Emitted("complete")
        /\ (Ended =>
               /\ pc = "done"
               /\ LastIs("error")
               /\ Count("error") = 1
               /\ ContainsFailed(events[Len(events)].message))

\* A run whose two searches ended one without output and one by timeout has
\* ended with the error event.
C16_Witness ==
    /\ Research
    /\ pc = "done"
    /\ Len(tasks) = 2
    /\ {tasks[1].out, tasks[2].out} = {"None", "TimeoutError"}
    /\ LastIs("error")

\* C17: an exception of a single-shot stage ends the stream. After the
\* planning call timed out or raised, the events are the planning status and
\* one error event, and no search task was made; after the summarizing call
\* timed out or raised (the searches before it gave results) the stream has
\* ended with an error event as its last event and holds no complete event.
C17_SingleShotStageFatal ==
    /\ (stage["planner_agent"] \in StreamErrors \cup Guardrails =>
           /\ pc = "done"
           /\ Len(events) = 2
           /\ events[1] = StatusEvent(<<"Planning research strategy...">>)
           /\ events[2].type = "error"
           /\ tasks = <<>>
           /\ created = {1})
    /\ (stage["planner_agent"] = "TimeoutError" =>
           events[2] = ErrorEvent(<<"Research timed out. Please try again.">>))
    /\ (stage["summarizer_agent"] \in StreamErrors \cup Guardrails =>
           /\ pc = "done"
           /\ search_results # <<>>
           /\ LastIs("error")
           /\ Count("error") = 1
           /\ ~Emitted("complete"))

\* The summarizing call timed out after two successful searches and the
\* stream has ended with the error event.
C17_Witness ==
    /\ Research
    /\ stage["summarizer_agent"] = "TimeoutError"
    /\ Len(search_results) = 2
    /\ LastIs("error")

\* The event is a progress status of _execute_searches.
IsProgress(e) ==
    e.type = "status" /\ e.message[1] \in {"Completed (", "Timed out (", "Failed ("}

\* The first piece of the progress message for a search that ended with o.
ProgressWord(o) ==
    IF o = "final_output" THEN "Completed ("
    ELSE IF o = "TimeoutError" THEN "Timed out ("
    ELSE "Failed ("

Succeeded(n) ==
    LET Success(i) == tasks[i].out = "final_output"
    IN SelectSeq(SubSeq(finished, 1, n), Success)

\* C19: the results collected by research_company_stream are exactly the
\* outputs of the searches taken so far that succeeded, each once, in the
\* order in which the searches ended; the input of the summarizing agent is
\* these results with a blank line (two newlines) between neighbours; and
\* the complete event carries the summary made of that input.
C19_SummaryInputIsSuccessfulResults ==
    Research =>
        /\ Len(search_results) = Len(Succeeded(completed))
        /\ \A j \in DOMAIN search_results : search_results[j] = <<Succeeded(completed)[j]>>
        /\ (stage["summarizer_agent"] # "not invoked" =>
               LET succ == Succeeded(Len(finished))
               IN /\ completed = Len(tasks)
                  /\ Len(combined) = 3 * Len(succ) - 2
                  /\ \A j \in DOMAIN succ :
                        /\ combined[3 * j - 2] = succ[j]
                        /\ (j < Len(succ) =>
                               combined[3 * j - 1] = Newline /\ combined[3 * j] = Newline))
        /\ (LastIs("complete") => events[Len(events)].data = [summary_of |-> combined])

\* Plan [q1, q2]: q1 succeeded, q2 timed out, and the complete event carries
\* the summary of q1's result alone.
C19_Witness ==
    /\ Research
    /\ Len(tasks) = 2
    /\ tasks[1].out = "final_output"
    /\ tasks[2].out = "TimeoutError"
    /\ LastIs("complete")
    /\ events[Len(events)].data = [summary_of |-> <<1>>]

\* An exception of an agent call reached the except clauses of the
\* generator: a single-shot stage raised, or the fan-out task taken last
\* re-raised a tripwire.
ExceptionReached ==
    \/ \E a \in Agents : stage[a] \in StreamErrors \cup Guardrails
    \/ /\ pc \notin {"searches", "generators", "closed"}
       /\ completed < Len(finished)
       /\ tasks[NextFinished].out \in Guardrails

----------------------------------------------------------------------------
\* Guardrails, error texts and the drill pipelines.

\* The run is generate_drill.
DrillCall == pipeline = "generate_drill"

\* The tripwires that agent calls of the run have ended with.
Tripped ==
    ({stage[a] : a \in Agents} \cup {tasks[i].out : i \in DOMAIN tasks}) \cap Guardrails

\* The fixed message of a tripwire's direction.
SafeMessage(cls) ==
    IF cls = "InputGuardrailTripwireTriggered" THEN <<SAFE_INJECTION_MESSAGE>>
    ELSE <<SAFE_LEAKAGE_MESSAGE>>

\* C21: when a guardrail has tripped in an agent call of a run of
\* research_company_stream or generate_drill_stream (a single-shot stage, one
\* search, one generator) the stream never holds a complete event, and once
\* it has ended it holds exactly one terminal event, an error event, as its
\* last event. The error's message is the fixed message of a direction that
\* tripped and nothing else: it has no piece taken from the exception, so
\* two runs that differ in the offending text or the matched pattern emit
\* the same message.
C21_TripwireAbortsWithFixedMessage ==
    ((Research \/ Drill) /\ Tripped # {}) =>
        /\ ~Emitted("complete")
        /\ (Ended =>
               /\ pc = "done"
               /\ LastIs("error")
               /\ Count("error") = 1
               /\ \E c \in Tripped : events[Len(events)].message = SafeMessage(c))

\* The second search of a research run tripped the output guardrail after the
\* first succeeded; the stream ended with the fixed leakage message.
C21_Witness ==
    /\ Research
    /\ pc = "done"
    /\ Len(tasks) = 2
    /\ tasks[1].out = "final_output"
    /\ tasks[2].out = "OutputGuardrailTripwireTriggered"
    /\ finished = <<1, 2>>
    /\ events[Len(events)] = ErrorEvent(<<SAFE_LEAKAGE_MESSAGE>>)

\* The texts of the exceptions that are no tripwire and no timeout in the
\* runs of the model: the provider's text of a failed agent call, and the
\* interpreter's text for an attribute read on None.
InternalTexts ==
    {AgentRaises("RuntimeError").msg,
     "'NoneType' object has no attribute 'selection_reasoning'"}

\* C22: the message of an error event of a stream does not depend on the
\* text of the exception behind it: no piece of the message is the text of
\* an exception, so runs that fail with different exception contents emit
\* the same message.
C22_ErrorTextWithoutExceptionText ==
    \A k \in DOMAIN events :
        events[k].type = "error" =>
            \A j \in DOMAIN events[k].message : events[k].message[j] \notin InternalTexts

\* The generators whose Runner.run gave a candidate.
Successes == {g \in DOMAIN tasks : tasks[g].out = "final_output"}

\* Every generator has ended, each with a candidate, a timeout or an error
\* that is no tripwire.
GeneratorsEnded ==
    \A g \in DOMAIN tasks :
        tasks[g].st = "done" /\ tasks[g].out \in FailOutcomes \cup {"final_output"}

\* C23: when exactly one generator of a drill run produced a candidate and
\* the others timed out or failed, the evaluator is never invoked, and the
\* run ends with that candidate's drill, unchanged, as its result: the data
\* of the one complete event of generate_drill_stream (no error event), the
\* value generate_drill returns.
C23_SingleCandidateSkipsEvaluator ==
    ((Drill \/ DrillCall) /\ GeneratorsEnded /\ Cardinality(Successes) = 1) =>
        /\ stage["evaluator_agent"] = "not invoked"
        /\ pc # "evaluate"
        /\ (Ended =>
               LET only == CHOOSE g \in Successes : TRUE
               IN /\ pc = "done"
                  /\ (Drill =>
                         /\ events[Len(events)] = CompleteEvent(Candidate(only).drill)
                         /\ Count("complete") = 1
                         /\ Count("error") = 0
                         /\ Count("candidate") = 1)
                  /\ (DrillCall => returned = Returns(Candidate(only).drill)))

\* The first generator timed out, the third failed, and the stream ended with
\* the drill of the second as the data of its complete event.
C23_Witness ==
    /\ Drill
    /\ pc = "done"
    /\ tasks[1].out = "TimeoutError"
    /\ tasks[2].out = "final_output"
    /\ tasks[3].out = "RuntimeError"
    /\ events[Len(events)] = CompleteEvent([title |-> Title(2)])

\* The evaluator's call has been made and has ended.
EvaluatorCalled == stage["evaluator_agent"] \notin {"not invoked", "in flight"}

\* C24: when every generator of a drill run timed out or failed, the
\* evaluator is never invoked and the run ends with an error that holds the
\* word "failed": the one error event of generate_drill_stream (its last
\* event, no complete event), the ValueError generate_drill raises. When two
\* or more generators produced a candidate the evaluator is invoked before
\* the run ends, and exactly once: its call starts only when it was never
\* invoked before.
C24_EvaluatorByCandidateCount ==
    /\ []((Drill \/ DrillCall) /\ GeneratorsEnded /\ Cardinality(Successes) = 0 =>
             /\ stage["evaluator_agent"] = "not invoked"
             /\ (Ended /\ Drill =>
                    /\ pc = "done"
                    /\ LastIs("error")
                    /\ Count("error") = 1
                    /\ Count("complete") = 0
                    /\ ContainsFailed(events[Len(events)].message))
             /\ (Ended /\ DrillCall =>
                    /\ returned.kind = "raise"
                    /\ returned.exc = Exc("ValueError",
                                          "All generators failed to produce candidates")))
    /\ []((Drill \/ DrillCall) /\ GeneratorsEnded /\ Cardinality(Successes) >= 2 /\ Ended =>
             EvaluatorCalled)
    /\ [][stage'["evaluator_agent"] = "in flight" /\ stage["evaluator_agent"] # "in flight" =>
             /\ stage["evaluator_agent"] = "not invoked"
             /\ Len(candidates') >= 2]_vars

\* All three generators timed out and generate_drill raised its ValueError
\* without a call of the evaluator.
C24_Witness ==
    /\ DrillCall
    /\ pc = "raised"
    /\ \A g \in DOMAIN tasks : tasks[g].out = "TimeoutError"
    /\ returned.exc.cls = "ValueError"
    /\ stage["evaluator_agent"] = "not invoked"

\* The generators that gave a candidate among the first n taken, in the
\* order in which they ended.
TakenSuccesses(n) ==
    LET Success(g) == tasks[g].out = "final_output"
    IN SelectSeq(SubSeq(finished, 1, n), Success)

\* The candidate events of the stream, in order.
CandidateEvents ==
    LET IsCandidate(e) == e.type = "candidate"
    IN SelectSeq(events, IsCandidate)

\* C25: generate_drill_stream emits one candidate event per generator that
\* succeeded, as it is taken, in the order in which the generators ended,
\* carrying that generator's type and title; once every generator has ended
\* (none by a tripwire) and the stream has ended, the candidate events are
\* as many as the generators that succeeded. When two or more succeeded, a
\* complete event is the only one, follows the "Selected" status of the
\* candidate the evaluator chose, and its data is that candidate's drill.
C25_CandidateEventsAndSelectedDrill ==
    Drill =>
        /\ Len(CandidateEvents) = Len(TakenSuccesses(completed))
        /\ \A j \in DOMAIN CandidateEvents :
              CandidateEvents[j] =
                  CandidateEvent(Generators[TakenSuccesses(completed)[j]].type,
                                 Title(TakenSuccesses(completed)[j]))
        /\ (Ended /\ GeneratorsEnded => Count("candidate") = Cardinality(Successes))
        /\ (GeneratorsEnded /\ Cardinality(Successes) >= 2 /\ Emitted("complete") =>
               /\ Count("complete") = 1
               /\ LastIs("complete")
               /\ stage["evaluator_agent"] = "final_output"
               /\ \E sel \in DOMAIN candidates :
                     /\ events[Len(events) - 1] =
                           StatusEvent(<<"Selected: ", candidates[sel].generator_type,
                                         " - ", "reasoning_preview", "...">>)
                     /\ events[Len(events)].data = candidates[sel].drill)

\* Generator A succeeded, B timed out, C succeeded, and the evaluator chose
\* C's drill: two candidate events, one call of the evaluator, one complete
\* event with C's drill.
C25_Witness ==
    /\ Drill
    /\ pc = "done"
    /\ tasks[1].out = "final_output"
    /\ tasks[2].out = "TimeoutError"
    /\ tasks[3].out = "final_output"
    /\ Count("candidate") = 2
    /\ stage["evaluator_agent"] = "final_output"
    /\ Count("complete") = 1
    /\ events[Len(events)] = CompleteEvent([title |-> Title(3)])

\* The outcomes of an evaluator call that timed out or failed.
EvaluatorFailures == {"TimeoutError", "RuntimeError", "None"} \cup Guardrails

\* C26: when generate_drill_stream had two or more candidates and the
\* evaluator's call timed out or failed, the stream has ended with exactly
\* one error event as its last event and holds no complete event: no
\* candidate is used in place of the evaluation. After a timeout the message
\* is the timeout message.
C26_EvaluatorFailureIsFatal ==
    (Drill /\ stage["evaluator_agent"] \in EvaluatorFailures) =>
        /\ Len(candidates) >= 2
        /\ pc = "done"
        /\ LastIs("error")
        /\ Count("error") = 1
        /\ Count("complete") = 0
        /\ (stage["evaluator_agent"] = "TimeoutError" =>
               events[Len(events)] =
                   ErrorEvent(<<"Drill generation timed out. Please try again.">>))

\* All three generators gave a candidate and the evaluator timed out: the
\* stream ended with the timeout error after three candidate events.
C26_Witness ==
    /\ Drill
    /\ Len(candidates) = 3
    /\ stage["evaluator_agent"] = "TimeoutError"
    /\ Count("candidate") = 3
    /\ LastIs("error")

\* The events that the outcome of generator g calls for: the candidate and
\* its status, or the status of a timeout or of a failure.
OutcomeEvents(g) ==
    IF tasks[g].out = "final_output"
    THEN << CandidateEvent(Generators[g].type, Title(g)),
            StatusEvent(<<"Generated ", Generators[g].desc, ": ", Title(g)>>) >>
    ELSE IF tasks[g].out = "TimeoutError"
    THEN << StatusEvent(<<Capitalize(Generators[g].desc), " timed out, continuing...">>) >>
    ELSE << StatusEvent(<<Capitalize(Generators[g].desc), " failed, continuing...">>) >>

\* The outcome events of the first n generators to end, in that order.
RECURSIVE OutcomesOfFirst(_)
OutcomesOfFirst(n) ==
    IF n = 0 THEN <<>> ELSE OutcomesOfFirst(n - 1) \o OutcomeEvents(finished[n])

\* The event is the outcome of a generator.
IsOutcome(e) ==
    \/ e.type = "candidate"
    \/ /\ e.type = "status"
       /\ \/ e.message[1] = "Generated "
          \/ /\ Len(e.message) = 2
             /\ e.message[2] \in {" timed out, continuing...", " failed, continuing..."}

\* C27: generate_drill_stream makes one task per configured generator, all
\* of them started before the first is taken, so they run side by side. After
\* the two opening status events the stream holds, for every generator taken,
\* exactly its outcome (candidate and status, or a "timed out" or "failed"
\* status), in the order in which the generators ended, and no other outcome
\* event. A timeout or an error of one generator aborts nothing: when no
\* generator tripped a guardrail, a terminal event is emitted, and the
\* stream ends, only after all generators were taken.
C27_GeneratorFanOut ==
    Drill =>
        /\ Len(tasks) = HOW_MANY_GENERATORS
        /\ Len(tasks) \in 1..Len(ALL_GENERATORS)
        /\ completed <= Len(finished)
        /\ \A j, k \in DOMAIN finished : j # k => finished[j] # finished[k]
        /\ (completed >= 1 => \A g \in DOMAIN tasks : tasks[g].st # "created")
        /\ LET outcomes == OutcomesOfFirst(completed)
           IN /\ Len(events) >= 2 + Len(outcomes)
              /\ SubSeq(events, 3, 2 + Len(outcomes)) = outcomes
              /\ \A k \in DOMAIN events :
                    IsOutcome(events[k]) => k \in 3..(2 + Len(outcomes))
        /\ (Tripped = {} /\ (Emitted("complete") \/ Emitted("error") \/ Ended) =>
               completed = Len(tasks))

\* The third generator ended first and the first one, by timeout, second;
\* all three were taken in that order and the stream ended.
C27_Witness ==
    /\ Drill
    /\ pc = "done"
    /\ finished = <<3, 1, 2>>
    /\ tasks[1].out = "TimeoutError"
    /\ tasks[2].out = "final_output"
    /\ tasks[3].out = "final_output"
    /\ completed = 3
    /\ events[3].type = "candidate"
    /\ events[5] = StatusEvent(<<"Coding challenge", " timed out, continuing...">>)


\* C36: when research_company_stream has emitted its terminal event, no
\* search task of the run is still running and no handle is registered under
\* the session id, also after a tripwire of one search ended the fan-out
\* while other searches were in flight.
C36_NoOrphanedSearch ==
    (pipeline = "research_company_stream" /\ pc = "done") =>
        /\ \A i \in DOMAIN tasks : tasks[i].st = "done"
        /\ ListOf(active, SessionId) = <<>>

\* How often the endpoint has called task_registry.cleanup.
CleanupCalls ==
    Cardinality({k \in DOMAIN invoked : invoked[k].call = "task_registry.cleanup"})

\* C32: the drill stream's endpoint calls task_registry.cleanup(session_id)
\* exactly once when its event stream ends, by the end of
\* generate_drill_stream or by an exception raised in mid-stream, and not
\* before: no event of the stream follows the call.
C32_CleanupOnceWhenStreamEnds ==
    /\ [](pipeline = "generate_drill_stream" =>
             CleanupCalls = (IF returned.kind = "none" THEN 0 ELSE 1))
    /\ [][CleanupCalls >= 1 => events' = events]_vars

\* The stream was ended by an exception after a candidate event, with
\* generator tasks still running, and the cleanup was called.
C32_Witness ==
    /\ pipeline = "generate_drill_stream"
    /\ returned.kind = "raise"
    /\ CleanupCalls = 1
    /\ \E k \in DOMAIN events : events[k].type = "candidate"
    /\ \E g \in DOMAIN tasks : tasks[g].st = "running"

----------------------------------------------------------------------------
\* Termination of the streaming pipelines (checked under SpecStreamLive).

\* A run of research_company_stream or of generate_drill_stream was started.
StreamStarted == pipeline \in {"research_company_stream", "generate_drill_stream"}

\* The stream has ended and its last event is its one terminal event.
EndedWithOneTerminalEvent ==
    /\ pc = "done"
    /\ events # <<>>
    /\ Terminal(events[Len(events)])
    /\ Cardinality({k \in DOMAIN events : Terminal(events[k])}) = 1

\* C40: when every agent call ends and the event loop keeps running, a run
\* of research_company_stream or generate_drill_stream that was started ends
\* with exactly one terminal event as its last event, unless its consumer
\* closed it before; and a stream that has ended emits nothing more.
C40_StreamEndsWithOneTerminalEvent ==
    /\ StreamStarted ~> (EndedWithOneTerminalEvent \/ pc = "closed")
    /\ [][pc = "done" => (pc' = "done" /\ events' = events)]_vars

\* A research stream has ended with its terminal event after one search
\* timed out, another failed, and the session's calls were cancelled.
C40_Witness ==
    /\ pipeline = "research_company_stream"
    /\ EndedWithOneTerminalEvent
    /\ \E i \in DOMAIN tasks : tasks[i].out = "TimeoutError"
    /\ \E i \in DOMAIN tasks : tasks[i].out = "RuntimeError"
    /\ cancel_requested[SessionId] # "never"

----------------------------------------------------------------------------
\* Properties of the guardrail functions (checked under SpecGuard).

\* C33: a guardrail function that returns has set the tripwire exactly when
\* a pattern of the list matches the text, or the heuristic flags the text
\* and the classifier reports a violation; the classifier is never invoked
\* when a pattern matches or when the heuristic does not flag the text; and
\* on a pattern match the reported pattern is the first of the list, in list
\* order, that matches.
C33_GuardrailVerdict ==
    /\ guard.at = "returned" =>
          guard.tripwire_triggered
              = (guard.matches # {} \/ (guard.gate /\ guard.verdict = "violation"))
    /\ (guard.matches # {} \/ ~guard.gate) => guard.classifier_calls = 0
    /\ (guard.at = "returned" /\ guard.matches # {}) =>
          /\ guard.matched_pattern \in guard.matches
          /\ \A j \in guard.matches : guard.matched_pattern <= j

\* A text that two patterns match and the heuristic flags: the guardrail
\* returned the first of the two without a classifier call.
C33_Witness ==
    /\ guard.at = "returned"
    /\ guard.matches = {2, 3}
    /\ guard.gate
    /\ guard.matched_pattern = 2
    /\ guard.tripwire_triggered
    /\ guard.classifier_calls = 0

----------------------------------------------------------------------------
\* Properties of the scout pipeline (checked under SpecScout).

\* The run of scout_search_stream.
ScoutCall == pipeline = "scout_search_stream"

\* Entry k of the history is a cancellation check that is_cancelled answered
\* with a.
IsCheck(k, a) ==
    /\ k \in DOMAIN invoked
    /\ invoked[k].call = "_check_cancelled"
    /\ invoked[k].gave = a

\* C28: scout_search_stream checks is_cancelled at every phase boundary:
\* filtering, the README fetch and the creation of the analysis batches are
\* each directly preceded by a check that found the run not cancelled, and so
\* is every wait for a completed batch of the analysis loop; after a check
\* that found the run cancelled nothing more is invoked and no batch is
\* started.
C28_CheckAtEveryPhaseBoundary ==
    ScoutCall =>
        /\ \A k \in DOMAIN invoked :
              invoked[k].call \in {"_filter_repos", "_fetch_readmes", "_run_analysis",
                                   "asyncio.wait"}
                  => IsCheck(k - 1, "False")
        /\ \A k \in DOMAIN invoked : IsCheck(k, "True") => k = Len(invoked)

\* The run was cancelled after the README fetch: the check that follows the
\* fetch found it cancelled, and no batch task was made.
C28_Witness ==
    /\ ScoutCall
    /\ pc = "done"
    /\ Len(invoked) > 1
    /\ IsCheck(Len(invoked), "True")
    /\ invoked[Len(invoked) - 1].call = "_fetch_readmes"
    /\ tasks = <<>>

\* A cancellation check of the run found it cancelled.
CancellationObserved == \E k \in DOMAIN invoked : IsCheck(k, "True")

\* C29: once scout_search_stream has observed a cancellation it emits no
\* complete event and saves no analysis results, and when it has ended the
\* recorded run status is "cancelled" and its last event is the cancelled
\* status event.
C29_CancelledRunEndsCancelled ==
    (ScoutCall /\ CancellationObserved) =>
        /\ \A k \in DOMAIN events : events[k].type # "complete"
        /\ saved = <<>>
        /\ pc = "done" =>
              /\ run_status = "cancelled"
              /\ events[Len(events)] = _cancelled_event

\* A run cancelled during the analysis, after a batch was counted, has ended.
C29_Witness ==
    /\ ScoutCall
    /\ CancellationObserved
    /\ pc = "done"
    /\ scout.analyzed > 0

\* C30: when scout_search_stream has emitted its last event no batch task of
\* the run is left unstarted, running or with a cancellation under way, and
\* the registry holds no call of the run.
C30_NoBatchTaskOutlivesTheStream ==
    (ScoutCall /\ pc = "done") =>
        /\ \A i \in DOMAIN tasks : tasks[i].st \in {"done", "cancelled"}
        /\ ListOf(active, RunId) = <<>>

\* A run that ended by an exception of the loop after one batch was taken,
\* with another batch cancelled while its agent call was in flight.
C30_Witness ==
    /\ ScoutCall
    /\ pc = "done"
    /\ returned.kind = "raise"
    /\ \E i \in DOMAIN tasks : tasks[i].st = "cancelled" /\ tasks[i].h # NoHandle
    /\ \E i \in DOMAIN tasks : tasks[i].st = "done"


\* The complete events of the run.
CompleteEvents == {k \in DOMAIN events : events[k].type = "complete"}

\* The number of results of the batches 1..n that gave a result list.
RECURSIVE ResultsOfFirst(_)
ResultsOfFirst(n) ==
    IF n = 0 THEN 0
    ELSE ResultsOfFirst(n - 1)
         + (IF tasks[n].out = "final_output" THEN BatchSize(n, scout.capped) ELSE 0)

\* Every cancellation check of the run found it not cancelled.
NeverCancelled == \A k \in DOMAIN invoked :
    invoked[k].call = "_check_cancelled" => invoked[k].gave = "False"

AnalysisEvents ==
    {k \in DOMAIN events :
        /\ events[k].type \in {"progress", "error"}
        /\ "phase" \in DOMAIN events[k]}

\* The analyzed count and the total that event k reports.
ReportedAnalyzed(k) == events[k].message[2]
ReportedTotal(k) == events[k].message[4]

\* C37: in the progress and error events of _run_analysis the reported
\* analyzed count never decreases from one event to the next and never
\* exceeds the reported total.
C37_ProgressCounterBounded ==
    ScoutCall =>
        \A k \in AnalysisEvents :
            /\ ReportedAnalyzed(k) <= ReportedTotal(k)
            /\ \A j \in AnalysisEvents : j < k => ReportedAnalyzed(j) <= ReportedAnalyzed(k)


\* C38: once the recorded status of the run is "cancelled", no later step
\* records another status.
C38_CancelledStatusIsStable ==
    [][run_status = "cancelled" => run_status' = "cancelled"]_vars


----------------------------------------------------------------------------
\* Properties of the scout API (checked under SpecApi).

\* C39: at most one stream of scout events runs at any time, over all runs.
C39_AtMostOneActivePipeline ==
    \A a, b \in Ids :
        api.streams[a] + (IF a # b THEN api.streams[b] ELSE 0) <= 1

====
